---- MODULE Spec2Model ----
(***************************************************************************)
(* Model of the llm package of quells-bot/unified-llm: the Conversation     *)
(* data model, the Converse translation layer (toConverseInput,             *)
(* fromConverseOutput), the error classifier and the two generations of     *)
(* Client (Send over Converse, Complete over InvokeModel) with their        *)
(* middleware chain.                                                        *)
(*                                                                          *)
(* Go slices are modelled as (array address, length) pairs over a heap of   *)
(* backing arrays, so that aliasing between the caller's conversation and   *)
(* the copy Send works on is visible.  Go strings on which the code runs    *)
(* strings.Contains / strings.ToLower are sequences of one-character        *)
(* strings.                                                                 *)
(***************************************************************************)
EXTENDS Integers, Sequences, FiniteSets, TLC

(* ------------------------------ bounds --------------------------------- *)

\* number of Send / Complete calls one behaviour makes
MaxSends == 2
\* number of middlewares registered on the client
MaxMw == 2
\* number of new messages handed to one Send
MaxNew == 2
MaxMsgs == 3
MaxSys == 2
MaxTools == 3
MaxParams == 2

(* ------------------------------ strings -------------------------------- *)

ModelHaiku == <<"u", "s", ".", "a", "n", "t", "h", "r", "o", "p", "i", "c", ".", "h">>
ModelLlama == <<"m", "e", "t", "a", ".", "l", "l", "a", "m", "a">>
NeedleAnthropic == <<"a", "n", "t", "h", "r", "o", "p", "i", "c", ".">>
NeedleContextLength == <<"c", "o", "n", "t", "e", "x", "t", " ", "l", "e", "n", "g", "t", "h">>
NeedleTooManyTokens == <<"t", "o", "o", " ", "m", "a", "n", "y", " ", "t", "o", "k", "e", "n", "s">>
NeedleContentFilter == <<"c", "o", "n", "t", "e", "n", "t", " ", "f", "i", "l", "t", "e", "r">>
NeedleGuardrail == <<"g", "u", "a", "r", "d", "r", "a", "i", "l">>
MsgCanceled == <<"c", "o", "n", "t", "e", "x", "t", " ", "c", "a", "n", "c", "e", "l", "e", "d">>
MsgSlowDown == <<"s", "l", "o", "w", " ", "d", "o", "w", "n">>
MsgTooMany == <<"T", "o", "o", " ", "M", "a", "n", "y", " ", "T", "o", "k", "e", "n", "s">>
MsgUnexpected == <<"u", "n", "e", "x", "p", "e", "c", "t", "e", "d", " ", "o", "u", "t", "p", "u", "t">>
MsgBlocked == <<"b", "l", "o", "c", "k", "e", "d">>
MsgNoProvider == <<"n", "o", " ", "p", "r", "o", "v", "i", "d", "e", "r">>
MsgNoAdapter == <<"n", "o", " ", "a", "d", "a", "p", "t", "e", "r">>
MsgNotImplemented == <<"n", "o", "t", " ", "i", "m", "p", "l", "e", "m", "e", "n", "t", "e", "d">>
MsgUnmarshal == <<"f", "a", "i", "l", "e", "d", " ", "t", "o", " ", "u", "n", "m", "a", "r", "s", "h", "a", "l">>
MsgMarshal == <<"f","a","i","l","e","d"," ","t","o"," ","m","a","r","s","h","a","l"," ","r","e","q","u","e","s","t">>
MsgContextLen == <<"I", "n", "p", "u", "t", " ", "e", "x", "c", "e", "e", "d", "s", " ", "C", "O", "N", "T", "E", "X", "T", " ", "L", "E", "N", "G", "T", "H">>
MsgFilter == <<"b", "l", "o", "c", "k", "e", "d", " ", "b", "y", " ", "C", "o", "n", "t", "e", "n", "t", " ", "F", "i", "l", "t", "e", "r">>
MsgGuardrail == <<"G", "u", "a", "r", "d", "r", "a", "i", "l", " ", "i", "n", "t", "e", "r", "v", "e", "n", "e", "d">>
MsgBoth == <<"c", "o", "n", "t", "e", "n", "t", " ", "f", "i", "l", "t", "e", "r", ":", " ", "t", "o", "o", " ", "m", "a", "n", "y", " ", "t", "o", "k", "e", "n", "s">>
MsgDenied == <<"a", "c", "c", "e", "s", "s", " ", "d", "e", "n", "i", "e", "d">>
MsgNoChoices == <<"n", "o", " ", "c", "h", "o", "i", "c", "e", "s">>

UpperCase == <<"A", "B", "C", "D", "E", "F", "G", "H", "I", "J", "K", "L", "M",
               "N", "O", "P", "Q", "R", "S", "T", "U", "V", "W", "X", "Y", "Z">>
LowerCase == <<"a", "b", "c", "d", "e", "f", "g", "h", "i", "j", "k", "l", "m",
               "n", "o", "p", "q", "r", "s", "t", "u", "v", "w", "x", "y", "z">>

\* strings.ToLower, one character
LowerChar(c) ==
    IF \E i \in 1..26 : UpperCase[i] = c
    THEN LowerCase[CHOOSE i \in 1..26 : UpperCase[i] = c]
    ELSE c

\* strings.ToLower
ToLower(s) == [i \in 1..Len(s) |-> LowerChar(s[i])]

\* strings.Contains
Contains(s, sub) ==
    \E i \in 0..(Len(s) - Len(sub)) : SubSeq(s, i + 1, i + Len(sub)) = sub

(* --------------------------- optional values --------------------------- *)

\* a nil pointer / absent value is the empty sequence, a set one is <<v>>
None == <<>>
Some(v) == <<v>>
IsSome(o) == Len(o) = 1
Get(o) == o[1]

(* ------------------------------- types --------------------------------- *)

RoleSystem == "system"
RoleUser == "user"
RoleAssistant == "assistant"
RoleTool == "tool"

ContentText == "text"
ContentImage == "image"
ContentToolCall == "tool_call"
ContentToolResult == "tool_result"
ContentThinking == "thinking"

ToolChoiceAuto == "auto"
ToolChoiceNone == "none"
ToolChoiceRequired == "required"
ToolChoiceNamed == "named"

FinishReasonStop == "stop"
FinishReasonLength == "length"
FinishReasonToolUse == "tool_use"
FinishReasonContentFilter == "content_filter"
FinishReasonError == "error"

\* ContentPart: a tagged union, only the field matching Kind is populated
ContentPart(kind, text, image, toolCall, toolResult, thinking) ==
    [Kind |-> kind, Text |-> text, Image |-> image, ToolCall |-> toolCall,
     ToolResult |-> toolResult, Thinking |-> thinking]

TextPart(text) == ContentPart(ContentText, text, None, None, None, None)

ToolCallPart(id, name, arguments) ==
    ContentPart(ContentToolCall, "", None,
                Some([ID |-> id, Name |-> name, Arguments |-> arguments]), None, None)

ToolResultPart(callID, content, isError) ==
    ContentPart(ContentToolResult, "", None, None,
                Some([ToolCallID |-> callID, Content |-> content, IsError |-> isError]), None)

ThinkingPart(text, signature) ==
    ContentPart(ContentThinking, "", None, None, None,
                Some([Text |-> text, Signature |-> signature]))

\* A message value whose Content is given as the sequence of its parts.
\* UserMessage, AssistantMessage, SystemMessage: one text part.
SystemMessage(text) == [Role |-> RoleSystem, Content |-> <<TextPart(text)>>, ToolCallID |-> ""]
UserMessage(text) == [Role |-> RoleUser, Content |-> <<TextPart(text)>>, ToolCallID |-> ""]
AssistantMessage(text) == [Role |-> RoleAssistant, Content |-> <<TextPart(text)>>, ToolCallID |-> ""]

\* ToolResultMessage: one tool_result part, ToolCallID set on part and message
ToolResultMessage(callID, content, isError) ==
    [Role |-> RoleTool, Content |-> <<ToolResultPart(callID, content, isError)>>,
     ToolCallID |-> callID]

\* ToolCallData.Result / ToolCallData.ErrorResult
Result(tc, content) == ToolResultMessage(tc.ID, content, FALSE)
ErrorResult(tc, content) == ToolResultMessage(tc.ID, content, TRUE)

\* Usage: five counters
Usage(in, out, cr, cw, re) ==
    [InputTokens |-> in, OutputTokens |-> out, CacheReadTokens |-> cr,
     CacheWriteTokens |-> cw, ReasoningTokens |-> re]

ZeroUsage == Usage(0, 0, 0, 0, 0)

\* mutant: the cache-read counter is not accumulated
Add_DropCacheRead(u, other) ==
    [InputTokens |-> u.InputTokens + other.InputTokens,
     OutputTokens |-> u.OutputTokens + other.OutputTokens,
     CacheReadTokens |-> u.CacheReadTokens,
     CacheWriteTokens |-> u.CacheWriteTokens + other.CacheWriteTokens,
     ReasoningTokens |-> u.ReasoningTokens + other.ReasoningTokens]

\* Usage.Add
Add(u, other) ==
    [InputTokens |-> u.InputTokens + other.InputTokens,
     OutputTokens |-> u.OutputTokens + other.OutputTokens,
     CacheReadTokens |-> u.CacheReadTokens + other.CacheReadTokens,
     CacheWriteTokens |-> u.CacheWriteTokens + other.CacheWriteTokens,
     ReasoningTokens |-> u.ReasoningTokens + other.ReasoningTokens]

\* Config: inference parameters, each optional
Config(maxTokens, temperature, topP, stopSequences, toolChoice) ==
    [MaxTokens |-> maxTokens, Temperature |-> temperature, TopP |-> topP,
     StopSequences |-> stopSequences, ToolChoice |-> toolChoice]

\* json.RawMessage: no bytes ("empty"), bytes that parse to a document
\* ("valid") or bytes that do not parse ("malformed")
RawJSON(state, doc) == [state |-> state, doc |-> doc]

\* json.Unmarshal(raw, &doc) with the error dropped: doc stays nil on failure
Unmarshal(raw) == IF raw.state = "valid" THEN Some(raw.doc) ELSE None

\* Input.MarshalSmithyDocument() of a reply's tool-use block: the bytes of
\* the document, nothing for a nil Input
marshalDocument(input) ==
    IF IsSome(input) THEN RawJSON("valid", Get(input)) ELSE RawJSON("empty", "")

\* ToolDefinition (the fields toConverseInput reads)
ToolDefinition(name, description, parameters) ==
    [Name |-> name, Description |-> description, Parameters |-> parameters]

(* -------------------------------- errors ------------------------------- *)

ErrConfig == "config"
ErrAuthentication == "authentication"
ErrNotFound == "not_found"
ErrInvalidRequest == "invalid_request"
ErrRateLimit == "rate_limit"
ErrServer == "server"
ErrContextLength == "context_length"
ErrContentFilter == "content_filter"
\* only in the errors.go of the Complete generation
ErrAdapter == "adapter"

\* the kinds of errors.go
ErrorKind == {ErrConfig, ErrAuthentication, ErrNotFound, ErrInvalidRequest,
              ErrRateLimit, ErrServer, ErrContextLength, ErrContentFilter}

\* An error of the transport: the dynamic types found along its Unwrap
\* chain (what errors.As walks) and the text of Error().
TransportError(types, msg) == [types |-> types, msg |-> msg]

\* A Go error value: either an *Error (Kind, Message, Cause) or any other
\* error (llm = FALSE, no Kind).
LLMError(kind, provider, message, cause) ==
    [llm |-> TRUE, Kind |-> kind, Provider |-> provider, Message |-> message,
     Cause |-> cause]
PlainError(message) ==
    [llm |-> FALSE, Kind |-> "", Provider |-> "", Message |-> message, Cause |-> None]

\* errors.As(err, &target) for a target of exception type t
ErrorsAs(err, t) == \E i \in 1..Len(err.types) : err.types[i] = t

\* mutant: the context-length needle cut down to "context", so that the text
\* of a cancelled context matches it
classifyKind_LooseNeedle(err) ==
    IF ErrorsAs(err, "AccessDeniedException") THEN ErrAuthentication
    ELSE IF ErrorsAs(err, "ValidationException") THEN ErrInvalidRequest
    ELSE IF ErrorsAs(err, "ResourceNotFoundException") THEN ErrNotFound
    ELSE IF ErrorsAs(err, "ThrottlingException") THEN ErrRateLimit
    ELSE IF ErrorsAs(err, "ModelTimeoutException") THEN ErrServer
    ELSE IF ErrorsAs(err, "InternalServerException") THEN ErrServer
    ELSE IF ErrorsAs(err, "ModelErrorException") THEN ErrServer
    ELSE LET lower == ToLower(err.msg)
         IN IF Contains(lower, SubSeq(NeedleContextLength, 1, 7))
               \/ Contains(lower, NeedleTooManyTokens)
            THEN ErrContextLength
            ELSE IF Contains(lower, NeedleContentFilter) \/ Contains(lower, NeedleGuardrail)
            THEN ErrContentFilter
            ELSE ErrServer

\* mutant: the needles are looked for in the message as it is, not lower-cased
classifyKind_NoLower(err) ==
    IF ErrorsAs(err, "AccessDeniedException") THEN ErrAuthentication
    ELSE IF ErrorsAs(err, "ValidationException") THEN ErrInvalidRequest
    ELSE IF ErrorsAs(err, "ResourceNotFoundException") THEN ErrNotFound
    ELSE IF ErrorsAs(err, "ThrottlingException") THEN ErrRateLimit
    ELSE IF ErrorsAs(err, "ModelTimeoutException") THEN ErrServer
    ELSE IF ErrorsAs(err, "InternalServerException") THEN ErrServer
    ELSE IF ErrorsAs(err, "ModelErrorException") THEN ErrServer
    ELSE IF Contains(err.msg, NeedleContextLength) \/ Contains(err.msg, NeedleTooManyTokens)
    THEN ErrContextLength
    ELSE IF Contains(err.msg, NeedleContentFilter) \/ Contains(err.msg, NeedleGuardrail)
    THEN ErrContentFilter
    ELSE ErrServer

\* the kind the classifier picks
classifyKind(err) ==
    IF ErrorsAs(err, "AccessDeniedException") THEN ErrAuthentication
    ELSE IF ErrorsAs(err, "ValidationException") THEN ErrInvalidRequest
    ELSE IF ErrorsAs(err, "ResourceNotFoundException") THEN ErrNotFound
    ELSE IF ErrorsAs(err, "ThrottlingException") THEN ErrRateLimit
    ELSE IF ErrorsAs(err, "ModelTimeoutException") THEN ErrServer
    ELSE IF ErrorsAs(err, "InternalServerException") THEN ErrServer
    ELSE IF ErrorsAs(err, "ModelErrorException") THEN ErrServer
    ELSE LET lower == ToLower(err.msg)
         IN IF Contains(lower, NeedleContextLength) \/ Contains(lower, NeedleTooManyTokens)
            THEN ErrContextLength
            ELSE IF Contains(lower, NeedleContentFilter) \/ Contains(lower, NeedleGuardrail)
            THEN ErrContentFilter
            ELSE ErrServer

\* classifyBedrockError (Send generation: no provider)
classifyBedrockError(err) == LLMError(classifyKind(err), "", err.msg, Some(err))

(* ------------------------- translation layer --------------------------- *)

\* isAnthropicModel
isAnthropicModel(model) == Contains(model, NeedleAnthropic)

\* the wire role toConverseMessage assigns; a role outside the switch
\* (RoleSystem) leaves the zero value
converseRole(role) ==
    IF role = RoleUser THEN "user"
    ELSE IF role = RoleAssistant THEN "assistant"
    ELSE IF role = RoleTool THEN "user"
    ELSE ""

\* strings.TrimPrefix
TrimPrefix(s, prefix) ==
    IF Len(s) >= Len(prefix) /\ SubSeq(s, 1, Len(prefix)) = prefix
    THEN SubSeq(s, Len(prefix) + 1, Len(s))
    ELSE s

\* mutant: a thinking part is kept whatever the model
converseBlocks_ThinkingAlways(p, isAnthropic) ==
    IF p.Kind = ContentText
    THEN <<[t |-> "text", Value |-> p.Text]>>
    ELSE IF p.Kind = ContentToolCall
    THEN <<[t |-> "toolUse", ToolUseId |-> Get(p.ToolCall).ID,
            Name |-> Get(p.ToolCall).Name,
            Input |-> Unmarshal(Get(p.ToolCall).Arguments)]>>
    ELSE IF p.Kind = ContentToolResult
    THEN <<[t |-> "toolResult", ToolUseId |-> Get(p.ToolResult).ToolCallID,
            Content |-> <<Get(p.ToolResult).Content>>,
            Status |-> IF Get(p.ToolResult).IsError THEN "error" ELSE "success"]>>
    ELSE IF p.Kind = ContentImage
    THEN IF IsSome(p.Image) /\ Len(Get(p.Image).Data) > 0
         THEN <<[t |-> "image",
                 Format |-> TrimPrefix(Get(p.Image).MediaType, <<"i", "m", "a", "g", "e", "/">>),
                 Source |-> Get(p.Image).Data]>>
         ELSE <<>>
    ELSE IF p.Kind = ContentThinking
    THEN IF IsSome(p.Thinking)
         THEN <<[t |-> "reasoning", Text |-> Get(p.Thinking).Text,
                 Signature |-> Get(p.Thinking).Signature]>>
         ELSE <<>>
    ELSE <<>>

\* the blocks one content part contributes to the wire message (none or one)
converseBlocks(p, isAnthropic) ==
    IF p.Kind = ContentText
    THEN <<[t |-> "text", Value |-> p.Text]>>
    ELSE IF p.Kind = ContentToolCall
    THEN <<[t |-> "toolUse", ToolUseId |-> Get(p.ToolCall).ID,
            Name |-> Get(p.ToolCall).Name,
            Input |-> Unmarshal(Get(p.ToolCall).Arguments)]>>
    ELSE IF p.Kind = ContentToolResult
    THEN <<[t |-> "toolResult", ToolUseId |-> Get(p.ToolResult).ToolCallID,
            Content |-> <<Get(p.ToolResult).Content>>,
            Status |-> IF Get(p.ToolResult).IsError THEN "error" ELSE "success"]>>
    ELSE IF p.Kind = ContentImage
    THEN IF IsSome(p.Image) /\ Len(Get(p.Image).Data) > 0
         THEN <<[t |-> "image",
                 Format |-> TrimPrefix(Get(p.Image).MediaType, <<"i", "m", "a", "g", "e", "/">>),
                 Source |-> Get(p.Image).Data]>>
         ELSE <<>>
    ELSE IF p.Kind = ContentThinking
    THEN IF isAnthropic /\ IsSome(p.Thinking)
         THEN <<[t |-> "reasoning", Text |-> Get(p.Thinking).Text,
                 Signature |-> Get(p.Thinking).Signature]>>
         ELSE <<>>
    ELSE <<>>

RECURSIVE converseContent(_, _)
\* the loop over m.Content of toConverseMessage
converseContent(parts, isAnthropic) ==
    IF parts = <<>> THEN <<>>
    ELSE converseBlocks(Head(parts), isAnthropic) \o converseContent(Tail(parts), isAnthropic)

\* toConverseMessage, on a message whose Content is its sequence of parts
toConverseMessage(m, isAnthropic) ==
    [Role |-> converseRole(m.Role), Content |-> converseContent(m.Content, isAnthropic)]

\* mutant: the cache point is added whatever the model
converseSystem_NoModelCheck(conv) ==
    LET texts == [i \in 1..Len(conv.System) |-> [t |-> "text", Value |-> conv.System[i]]]
    IN IF Len(texts) > 0
       THEN Append(texts, [t |-> "cachePoint", Value |-> ""])
       ELSE texts

\* the System list of the request
converseSystem(conv) ==
    LET texts == [i \in 1..Len(conv.System) |-> [t |-> "text", Value |-> conv.System[i]]]
    IN IF isAnthropicModel(conv.Model) /\ Len(texts) > 0
       THEN Append(texts, [t |-> "cachePoint", Value |-> ""])
       ELSE texts

\* the Messages list of the request: one wire message per message, in order
converseMessages(conv) ==
    [i \in 1..Len(conv.Messages) |->
        toConverseMessage(conv.Messages[i], isAnthropicModel(conv.Model))]

\* the InferenceConfig of the request
converseInference(cfg) ==
    IF IsSome(cfg.MaxTokens) \/ IsSome(cfg.Temperature) \/ IsSome(cfg.TopP)
       \/ Len(cfg.StopSequences) > 0
    THEN Some([MaxTokens |-> cfg.MaxTokens, Temperature |-> cfg.Temperature,
               TopP |-> cfg.TopP, StopSequences |-> cfg.StopSequences])
    ELSE None

\* one ToolSpecification
converseToolSpec(td) ==
    [t |-> "toolSpec", Name |-> td.Name, InputSchema |-> Unmarshal(td.Parameters),
     Description |-> IF td.Description # "" THEN Some(td.Description) ELSE None]

\* the ToolChoice member for a configured mode (unknown mode: none set)
converseToolChoice(tc) ==
    IF tc.Mode = ToolChoiceAuto THEN Some([t |-> "auto", Name |-> ""])
    ELSE IF tc.Mode = ToolChoiceRequired THEN Some([t |-> "any", Name |-> ""])
    ELSE IF tc.Mode = ToolChoiceNamed THEN Some([t |-> "tool", Name |-> tc.ToolName])
    ELSE None

\* mutant: ToolChoiceNone only leaves the choice field unset
converseToolConfig_NoneKeepsTools(conv) ==
    IF Len(conv.Tools) > 0
    THEN LET specs == [i \in 1..Len(conv.Tools) |-> converseToolSpec(conv.Tools[i])]
             tools == IF isAnthropicModel(conv.Model)
                      THEN Append(specs, [t |-> "cachePoint", Name |-> "",
                                          InputSchema |-> None, Description |-> None])
                      ELSE specs
         IN Some([Tools |-> tools,
                  ToolChoice |-> IF IsSome(conv.Config.ToolChoice)
                                 THEN converseToolChoice(Get(conv.Config.ToolChoice))
                                 ELSE None])
    ELSE None

\* the ToolConfig of the request
converseToolConfig(conv) ==
    IF Len(conv.Tools) > 0
    THEN LET specs == [i \in 1..Len(conv.Tools) |-> converseToolSpec(conv.Tools[i])]
             tools == IF isAnthropicModel(conv.Model)
                      THEN Append(specs, [t |-> "cachePoint", Name |-> "",
                                          InputSchema |-> None, Description |-> None])
                      ELSE specs
         IN IF IsSome(conv.Config.ToolChoice)
               /\ Get(conv.Config.ToolChoice).Mode = ToolChoiceNone
            THEN None
            ELSE Some([Tools |-> tools,
                       ToolChoice |-> IF IsSome(conv.Config.ToolChoice)
                                      THEN converseToolChoice(Get(conv.Config.ToolChoice))
                                      ELSE None])
    ELSE None

\* toConverseInput, on a conversation whose slices are given by value
toConverseInput(conv) ==
    [ModelId |-> conv.Model,
     System |-> converseSystem(conv),
     Messages |-> converseMessages(conv),
     InferenceConfig |-> converseInference(conv.Config),
     ToolConfig |-> converseToolConfig(conv)]

\* mutant: a signal outside the switch is mapped to FinishReasonError
mapStopReason_DefaultError(sr) ==
    IF sr \in {"end_turn", "stop_sequence"} THEN FinishReasonStop
    ELSE IF sr \in {"max_tokens", "model_context_window_exceeded"} THEN FinishReasonLength
    ELSE IF sr = "tool_use" THEN FinishReasonToolUse
    ELSE IF sr \in {"content_filtered", "guardrail_intervened"} THEN FinishReasonContentFilter
    ELSE FinishReasonError

\* mutant: the guardrail signal is missing from the content-filter case
mapStopReason_NoGuardrail(sr) ==
    IF sr \in {"end_turn", "stop_sequence"} THEN FinishReasonStop
    ELSE IF sr \in {"max_tokens", "model_context_window_exceeded"} THEN FinishReasonLength
    ELSE IF sr = "tool_use" THEN FinishReasonToolUse
    ELSE IF sr = "content_filtered" THEN FinishReasonContentFilter
    ELSE sr

\* mapStopReason
mapStopReason(sr) ==
    IF sr \in {"end_turn", "stop_sequence"} THEN FinishReasonStop
    ELSE IF sr \in {"max_tokens", "model_context_window_exceeded"} THEN FinishReasonLength
    ELSE IF sr = "tool_use" THEN FinishReasonToolUse
    ELSE IF sr \in {"content_filtered", "guardrail_intervened"} THEN FinishReasonContentFilter
    ELSE sr

\* mutant: the parsed tool call takes the tool's name for its ID
partsOfBlock_NameAsID(b) ==
    IF b.t = "text" THEN <<TextPart(b.Value)>>
    ELSE IF b.t = "toolUse" THEN <<ToolCallPart(b.Name, b.Name, marshalDocument(b.Input))>>
    ELSE IF b.t = "reasoning" THEN <<ThinkingPart(b.Text, b.Signature)>>
    ELSE <<>>

\* the content parts one reply block yields (none or one)
partsOfBlock(b) ==
    IF b.t = "text" THEN <<TextPart(b.Value)>>
    ELSE IF b.t = "toolUse" THEN <<ToolCallPart(b.ToolUseId, b.Name, marshalDocument(b.Input))>>
    ELSE IF b.t = "reasoning" THEN <<ThinkingPart(b.Text, b.Signature)>>
    ELSE <<>>

RECURSIVE partsOfBlocks(_)
\* the loop over msgOut.Value.Content of fromConverseOutput
partsOfBlocks(blocks) ==
    IF blocks = <<>> THEN <<>>
    ELSE partsOfBlock(Head(blocks)) \o partsOfBlocks(Tail(blocks))

\* a nil *int32 counts as zero
tokens(p) == IF IsSome(p) THEN Get(p) ELSE 0

\* the Usage fromConverseOutput builds (ReasoningTokens is never set)
usageOfOutput(out) ==
    IF IsSome(out.Usage)
    THEN Usage(tokens(Get(out.Usage).InputTokens), tokens(Get(out.Usage).OutputTokens),
               tokens(Get(out.Usage).CacheReadInputTokens),
               tokens(Get(out.Usage).CacheWriteInputTokens), 0)
    ELSE ZeroUsage

\* fromConverseOutput: (message, usage, reason, err); err is a fmt.Errorf
\* error when the output is not the message variant
fromConverseOutput(out) ==
    IF out.Output.variant # "message"
    THEN [ok |-> FALSE, msg |-> [Role |-> "", Content |-> <<>>, ToolCallID |-> ""],
          usage |-> ZeroUsage, reason |-> "", err |-> Some(PlainError(MsgUnexpected))]
    ELSE [ok |-> TRUE,
          msg |-> [Role |-> RoleAssistant, Content |-> partsOfBlocks(out.Output.Content),
                   ToolCallID |-> ""],
          usage |-> usageOfOutput(out),
          reason |-> mapStopReason(out.StopReason),
          err |-> None]

(* ---------------------- slices and backing arrays ----------------------- *)

\* A slice is (a, n): the address of its backing array (0 for nil) and its
\* length; its capacity is the length of the array.  One family of arrays
\* per element type: msgs ([]Message), parts ([]ContentPart),
\* tools ([]ToolDefinition), sys ([]string).
NilSlice == [a |-> 0, n |-> 0]

EmptyHeap == [msgs |-> <<>>, parts |-> <<>>, tools |-> <<>>, sys |-> <<>>]

\* the elements of slice s in the arrays arrs
View(arrs, s) == IF s.a = 0 THEN <<>> ELSE SubSeq(arrs[s.a], 1, s.n)

Cap(arrs, s) == IF s.a = 0 THEN 0 ELSE Len(arrs[s.a])

\* the lowest unused address
FreshAddr(arrs) ==
    CHOOSE a \in 1..(Cardinality(DOMAIN arrs) + 1) :
        /\ a \notin DOMAIN arrs
        /\ \A b \in 1..(a - 1) : b \in DOMAIN arrs

\* the zero Message, in the unused slots of a []Message array
ZeroMessage == [Role |-> "", Content |-> NilSlice, ToolCallID |-> ""]

\* runtime.growslice for a small slice: double, or the needed length if larger
Grow(oldCap, need) == IF need > 2 * oldCap THEN need ELSE 2 * oldCap

\* Go's append(s, xs...): in place when the capacity suffices, else into a
\* new array; returns the arrays and the resulting slice
GoAppend(arrs, s, xs, zero) ==
    IF Len(xs) = 0 THEN [arrs |-> arrs, s |-> s]
    ELSE LET cap == Cap(arrs, s)
             need == s.n + Len(xs)
         IN IF need <= cap
            THEN [arrs |-> [arrs EXCEPT ![s.a] =
                               [i \in 1..cap |-> IF i > s.n /\ i <= need
                                                 THEN xs[i - s.n] ELSE @[i]]],
                  s |-> [a |-> s.a, n |-> need]]
            ELSE LET a == FreshAddr(arrs)
                     all == View(arrs, s) \o xs
                     newCap == Grow(cap, need)
                 IN [arrs |-> (a :> [i \in 1..newCap |-> IF i <= need THEN all[i] ELSE zero])
                              @@ arrs,
                     s |-> [a |-> a, n |-> need]]

\* a message value (Content by value) as seen through the heap
DeepMsg(h, m) ==
    [Role |-> m.Role, Content |-> View(h.parts, m.Content), ToolCallID |-> m.ToolCallID]

DeepMessages(h, s) ==
    [i \in 1..s.n |-> DeepMsg(h, View(h.msgs, s)[i])]

\* a Conversation as seen through the heap: every slice by value
DeepConv(h, c) ==
    [Model |-> c.Model,
     System |-> View(h.sys, c.System),
     Messages |-> DeepMessages(h, c.Messages),
     Tools |-> View(h.tools, c.Tools),
     Config |-> c.Config,
     Usage |-> c.Usage]

RECURSIVE StoreMessages(_, _)
\* builds message values in memory: each Content in an array of its own
\* (the composite literals of UserMessage, ToolResultMessage, and the
\* appends of fromConverseOutput); returns the arrays and the messages
StoreMessages(parts, vals) ==
    IF vals = <<>> THEN [arrs |-> parts, ms |-> <<>>]
    ELSE LET v == Head(vals)
             a == FreshAddr(parts)
             p1 == IF Len(v.Content) = 0 THEN parts ELSE (a :> v.Content) @@ parts
             c == IF Len(v.Content) = 0 THEN NilSlice ELSE [a |-> a, n |-> Len(v.Content)]
             rest == StoreMessages(p1, Tail(vals))
         IN [arrs |-> rest.arrs,
             ms |-> <<[Role |-> v.Role, Content |-> c, ToolCallID |-> v.ToolCallID]>>
                    \o rest.ms]

\* the arrays a conversation can reach; everything else is garbage
Collect(h, c) ==
    LET liveMsgs == {c.Messages.a} \ {0}
        liveParts == UNION {{h.msgs[a][i].Content.a : i \in 1..Len(h.msgs[a])} : a \in liveMsgs}
                     \ {0}
    IN [msgs |-> [a \in liveMsgs |-> h.msgs[a]],
        parts |-> [a \in liveParts |-> h.parts[a]],
        tools |-> [a \in ({c.Tools.a} \ {0}) |-> h.tools[a]],
        sys |-> [a \in ({c.System.a} \ {0}) |-> h.sys[a]]]

(* ------------------------------ the client ----------------------------- *)

VARIABLES
    client,     \* the Client: api generation, middleware list, adapters, default provider
    heap,       \* the backing arrays of all slices
    cur,        \* the conversation value the caller holds
    sends,      \* calls made so far
    usage0,     \* the usage of the conversation the caller started with
    turnSum,    \* sum of the usage of the turn results the caller folded in
    pc,         \* "idle", "call", "inflight", "ret", "returned"
    frame,      \* the locals of the call in progress
    other       \* concurrent Sends: the goroutine that is not running now;
                \* forking: the first Send and the conversation it returned

vars == <<client, heap, cur, sends, usage0, turnSum, pc, frame, other>>

\* the innermost function of the chain
Core == 0

RECURSIVE wrapFrom(_, _, _)
\* the wrapping loop: for i := len(middleware)-1; i >= 0; i-- { next := fn;
\* fn = func(..) { return mw(ctx, conv, next) } }.  A function of the chain
\* is the sequence of handlers it runs: its own, then those of its next.
wrapFrom(middleware, i, fn) ==
    IF i < 1 THEN fn ELSE wrapFrom(middleware, i - 1, <<middleware[i]>> \o fn)

\* mutant: the loop run from the first middleware to the last, which leaves
\* the last registered middleware outermost
Wrap_Forward(middleware) ==
    [i \in 1..Len(middleware) |-> middleware[Len(middleware) + 1 - i]] \o <<Core>>

\* fn after the loop, starting from fn := core
Wrap(middleware) == wrapFrom(middleware, Len(middleware), <<Core>>)

\* mutant: the copy is built in one buffer that all calls share (the array
\* at address 1), as c.buf = append(c.buf[:0], ...) would
sendCopy_SharedBuffer(arrs, s, xs) ==
    IF 1 \in DOMAIN arrs /\ Len(arrs[1]) >= s.n + Len(xs)
    THEN GoAppend(arrs, [a |-> 1, n |-> 0], View(arrs, s) \o xs, ZeroMessage)
    ELSE GoAppend(arrs, NilSlice, View(arrs, s) \o xs, ZeroMessage)

\* mutant: the copy is made only when the caller's array is full; otherwise
\* the new messages go into its spare capacity
sendCopy_ReuseSpare(arrs, s, xs) ==
    IF Cap(arrs, s) > s.n
    THEN GoAppend(arrs, s, xs, ZeroMessage)
    ELSE LET inner == GoAppend(arrs, NilSlice, View(arrs, s), ZeroMessage)
         IN GoAppend(inner.arrs, inner.s, xs, ZeroMessage)

\* mutant: the new messages appended to the caller's slice, without the copy
sendCopy_NoCopy(arrs, s, xs) == GoAppend(arrs, s, xs, ZeroMessage)

\* conv.Messages = append(append([]Message(nil), conv.Messages...), messages...)
sendCopy(arrs, s, xs) ==
    LET inner == GoAppend(arrs, NilSlice, View(arrs, s), ZeroMessage)
    IN GoAppend(inner.arrs, inner.s, xs, ZeroMessage)

\* NewConversation(model) without options
NewConversation(model) ==
    [Model |-> model, System |-> NilSlice, Messages |-> NilSlice, Tools |-> NilSlice,
     Config |-> Config(None, None, None, <<>>, None), Usage |-> ZeroUsage]

NoResult == [resp |-> None, err |-> None]

EmptyFrame ==
    [op |-> "", conv |-> NewConversation(<<>>), req |-> [Model |-> <<>>, Provider |-> ""],
     provider |-> "", fn |-> <<>>, stack |-> <<>>, result |-> NoResult, order |-> <<>>,
     calls |-> 0, nexts |-> <<>>, wire |-> None, ret |-> [conv |-> NewConversation(<<>>),
     resp |-> None, err |-> None],
     orig |-> DeepConv(EmptyHeap, NewConversation(<<>>)), newMsgs |-> <<>>,
     touched |-> FALSE, partWritten |-> FALSE, outcome |-> None]

\* what a goroutine sees of its conversations through the heap
GoroutineView(h, c, f) ==
    [cur |-> DeepConv(h, c), conv |-> DeepConv(h, f.conv), ret |-> DeepConv(h, f.ret.conv),
     reply |-> IF IsSome(f.result.resp) THEN <<DeepMsg(h, Get(f.result.resp).Message)>>
               ELSE <<>>]

\* a goroutine that is not running: its number, the conversation its caller
\* holds, its position and locals, and (ghost) what it saw when it was left
Goroutine(id, c, p, f, view) == [id |-> id, cur |-> c, pc |-> p, frame |-> f, view |-> view]

\* no second goroutine
NoGoroutine ==
    Goroutine(0, NewConversation(<<>>), "idle", EmptyFrame,
              GoroutineView(EmptyHeap, NewConversation(<<>>), EmptyFrame))

(* ------------------------------ the inputs ----------------------------- *)

UserTexts == <<"hi", "more", "again", "and", "on">>

\* Message.ToolCalls
ToolCalls(m) ==
    LET ps == SelectSeq(m.Content, LAMBDA p : p.Kind = ContentToolCall /\ IsSome(p.ToolCall))
    IN [i \in 1..Len(ps) |-> Get(ps[i].ToolCall)]

\* the tool loop of the example: one result per tool call of the last reply
ResultsFor(calls) ==
    [i \in 1..Len(calls) |-> IF i = 1 THEN Result(calls[i], "ok")
                             ELSE ErrorResult(calls[i], "failed")]

\* the lists of new messages a caller hands to Send for conversation dc
NewLists(dc) ==
    {[i \in 1..k |-> UserMessage(UserTexts[i])] : k \in 0..MaxNew}
    \cup (IF Len(dc.Messages) > 0
             /\ dc.Messages[Len(dc.Messages)].Role = RoleAssistant
             /\ Len(ToolCalls(dc.Messages[Len(dc.Messages)])) > 0
          THEN {ResultsFor(ToolCalls(dc.Messages[Len(dc.Messages)]))}
          ELSE {})

ArgsDoc == "args"

TokenUsage(in, out, cr, cw) ==
    [InputTokens |-> in, OutputTokens |-> out, CacheReadInputTokens |-> cr,
     CacheWriteInputTokens |-> cw]

\* replies of bedrock.Converse
OutText ==
    [Output |-> [variant |-> "message", Content |-> <<[t |-> "text", Value |-> "Hello!"]>>],
     StopReason |-> "end_turn",
     Usage |-> Some(TokenUsage(Some(10), Some(5), Some(2), Some(1)))]
OutTools ==
    [Output |-> [variant |-> "message",
                 Content |-> <<[t |-> "text", Value |-> "checking"],
                               [t |-> "toolUse", ToolUseId |-> "c1", Name |-> "get_user",
                                Input |-> Some(ArgsDoc)],
                               [t |-> "toolUse", ToolUseId |-> "c2", Name |-> "get_user",
                                Input |-> None]>>],
     StopReason |-> "tool_use",
     Usage |-> Some(TokenUsage(Some(20), Some(4), None, None))]
OutTool ==
    [Output |-> [variant |-> "message",
                 Content |-> <<[t |-> "toolUse", ToolUseId |-> "c0", Name |-> "get_user",
                                Input |-> Some(ArgsDoc)]>>],
     StopReason |-> "tool_use",
     Usage |-> Some(TokenUsage(Some(8), Some(2), None, Some(3)))]
OutOther ==
    [Output |-> [variant |-> "unknown", Content |-> <<>>],
     StopReason |-> "end_turn",
     Usage |-> None]

\* errors of bedrock.Converse
ErrThrottling == TransportError(<<"OperationError", "ThrottlingException">>, MsgSlowDown)
ErrCanceled == TransportError(<<"OperationError", "context.Canceled">>, MsgCanceled)
ErrOpaque == TransportError(<<"OperationError">>, MsgTooMany)

ConverseOutcomes ==
    {[ok |-> TRUE, out |-> o, err |-> ErrOpaque] : o \in {OutText, OutTool, OutTools, OutOther}}
    \cup {[ok |-> FALSE, out |-> OutOther, err |-> e] :
             e \in {ErrThrottling, ErrCanceled}}

\* what a middleware does around its call of next
SendMwKinds == {"pass", "short", "setMsg", "setPart", "setTool", "setSys"}
CompleteMwKinds == {"pass", "short"}

OtherTool == ToolDefinition("other", "", RawJSON("malformed", ""))
UserTool == ToolDefinition("get_user", "Get the user", RawJSON("valid", "schema"))

\* a conversation that was persisted and restored: one earlier message, a
\* system prompt, a tool, some usage; the message array has a spare slot
RestoredHeap ==
    [msgs |-> <<<<[Role |-> RoleUser, Content |-> [a |-> 1, n |-> 1], ToolCallID |-> ""],
                  ZeroMessage>>>>,
     parts |-> <<<<TextPart("earlier")>>>>,
     tools |-> <<<<UserTool>>>>,
     sys |-> <<<<"be brief">>>>]
RestoredConversation(model) ==
    [Model |-> model, System |-> [a |-> 1, n |-> 1], Messages |-> [a |-> 1, n |-> 1],
     Tools |-> [a |-> 1, n |-> 1],
     Config |-> Config(Some(4096), None, None, <<>>, None),
     Usage |-> Usage(7, 3, 1, 0, 0)]

(* ------------------------------- Send ---------------------------------- *)

Init ==
    /\ \E api \in {"send", "complete"}, n \in 0..MaxMw :
          client = [api |-> api, middleware |-> [i \in 1..n |-> i],
                    adapters |-> IF api = "complete" THEN {"anthropic", "openai"} ELSE {},
                    defaultProvider |-> IF api = "complete" /\ n > 0 THEN "openai" ELSE ""]
    /\ \E restored \in BOOLEAN :
          /\ client.api = "complete" => ~restored
          /\ heap = IF restored THEN RestoredHeap ELSE EmptyHeap
          /\ cur = IF restored THEN RestoredConversation(ModelHaiku)
                    ELSE NewConversation(ModelLlama)
    /\ sends = 0
    /\ usage0 = cur.Usage
    /\ turnSum = ZeroUsage
    /\ pc = "idle"
    /\ frame = EmptyFrame
    /\ other = NoGoroutine

\* Send up to the call of fn, for new messages drawn from lists: the copy
\* of the message list with the new messages appended, and the chain wrapped
\* around core
SendWith(lists) ==
    /\ pc = "idle"
    /\ client.api = "send"
    /\ sends < MaxSends
    /\ \E vals \in lists :
          LET st == StoreMessages(heap.parts, vals)
              cp == sendCopy(heap.msgs, cur.Messages, st.ms)
          IN /\ heap' = [heap EXCEPT !.parts = st.arrs, !.msgs = cp.arrs]
             /\ frame' = [EmptyFrame EXCEPT
                             !.op = "Send",
                             !.conv = [cur EXCEPT !.Messages = cp.s],
                             !.fn = Wrap(client.middleware),
                             !.nexts = [i \in 1..Len(client.middleware) |-> 0],
                             !.orig = DeepConv(heap, cur),
                             !.newMsgs = vals]
    /\ pc' = "call"
    /\ UNCHANGED <<client, cur, sends, usage0, turnSum, other>>

\* conv, resp, err := client.Send(ctx, conv, messages...)
CallSend == SendWith(NewLists(DeepConv(heap, cur)))

\* whether a middleware of this kind can act on the snapshot
MwCan(kind) ==
    CASE kind = "setMsg" -> frame.conv.Messages.n >= 1
      [] kind = "setPart" -> /\ frame.conv.Messages.n >= 1
                             /\ heap.msgs[frame.conv.Messages.a][1].Content.n >= 1
      [] kind = "setTool" -> frame.conv.Tools.n >= 1
      [] kind = "setSys" -> frame.conv.System.n >= 1
      [] OTHER -> TRUE

\* the write a middleware of this kind makes through its *Conversation:
\* conv.Messages[0] = Message{Role: RoleUser}; conv.Messages[0].Content[0] =
\* a text part; conv.Tools[0] = another tool; conv.System[0] = another text
MwWrite(kind) ==
    CASE kind = "setMsg" ->
            [heap EXCEPT !.msgs[frame.conv.Messages.a][1] =
                            [Role |-> RoleUser, Content |-> NilSlice, ToolCallID |-> ""]]
      [] kind = "setPart" ->
            [heap EXCEPT !.parts[heap.msgs[frame.conv.Messages.a][1].Content.a][1] =
                            TextPart("redacted")]
      [] kind = "setTool" -> [heap EXCEPT !.tools[frame.conv.Tools.a][1] = OtherTool]
      [] kind = "setSys" -> [heap EXCEPT !.sys[frame.conv.System.a][1] = "be verbose"]
      [] OTHER -> heap

\* a middleware is called: it runs its code before next and either calls
\* next or returns an error of its own without calling it
MwEnter ==
    /\ pc = "call"
    /\ Head(frame.fn) # Core
    /\ LET m == Head(frame.fn)
       IN \E kind \in (IF frame.op = "Send" THEN SendMwKinds ELSE CompleteMwKinds) :
             /\ MwCan(kind)
             /\ heap' = MwWrite(kind)
             /\ IF kind = "short"
                THEN /\ frame' = [frame EXCEPT
                                     !.order = Append(@, [ev |-> "before", mw |-> m]),
                                     !.result = [resp |-> None,
                                                 err |-> Some(PlainError(MsgBlocked))]]
                     /\ pc' = "ret"
                ELSE /\ frame' = [frame EXCEPT
                                     !.order = Append(@, [ev |-> "before", mw |-> m]),
                                     !.fn = Tail(@),
                                     !.stack = Append(@, m),
                                     !.nexts[m] = @ + 1,
                                     !.touched = @ \/ kind # "pass",
                                     !.partWritten = @ \/ kind = "setPart"]
                     /\ pc' = "call"
    /\ UNCHANGED <<client, cur, sends, usage0, turnSum, other>>

\* core of Send, first half: translate the snapshot and call Converse
SendCore ==
    /\ pc = "call"
    /\ frame.op = "Send"
    /\ Head(frame.fn) = Core
    /\ frame' = [frame EXCEPT
                    !.wire = Some(toConverseInput(DeepConv(heap, frame.conv))),
                    !.calls = @ + 1,
                    !.order = Append(@, [ev |-> "core", mw |-> Core])]
    /\ pc' = "inflight"
    /\ UNCHANGED <<client, heap, cur, sends, usage0, turnSum, other>>

\* core of Send, second half: what core returns for an outcome of Converse;
\* the reply's message is built in memory
coreResult(parts, outcome) ==
    IF ~outcome.ok
    THEN [arrs |-> parts,
          result |-> [resp |-> None, err |-> Some(classifyBedrockError(outcome.err))]]
    ELSE LET r == fromConverseOutput(outcome.out)
         IN IF ~r.ok
            THEN [arrs |-> parts, result |-> [resp |-> None, err |-> r.err]]
            ELSE LET st == StoreMessages(parts, <<r.msg>>)
                 IN [arrs |-> st.arrs,
                     result |-> [resp |-> Some([Message |-> st.ms[1],
                                                FinishReason |-> r.reason,
                                                Usage |-> r.usage]),
                                 err |-> None]]

\* mutant: core calls Converse a second time when the first call failed
afterConverse_Retry(outcome, calls) == IF ~outcome.ok /\ calls < 2 THEN "call" ELSE "ret"

\* where core goes once Converse has returned: it returns to its caller
afterConverse(outcome, calls) == "ret"

\* Converse returns (a reply or an error) and core returns
ConverseReply ==
    /\ pc = "inflight"
    /\ frame.op = "Send"
    /\ \E outcome \in ConverseOutcomes :
          LET cr == coreResult(heap.parts, outcome)
          IN /\ heap' = [heap EXCEPT !.parts = cr.arrs]
             /\ frame' = [frame EXCEPT !.result = cr.result, !.outcome = Some(outcome)]
             /\ pc' = afterConverse(outcome, frame.calls)
    /\ UNCHANGED <<client, cur, sends, usage0, turnSum, other>>

\* next has returned into a middleware: it runs its code after next and
\* returns what next returned
MwExit ==
    /\ pc = "ret"
    /\ frame.stack # <<>>
    /\ LET m == frame.stack[Len(frame.stack)]
       IN frame' = [frame EXCEPT
                       !.stack = SubSeq(@, 1, Len(@) - 1),
                       !.order = Append(@, [ev |-> "after", mw |-> m])]
    /\ UNCHANGED <<client, heap, cur, sends, usage0, turnSum, pc, other>>

\* mutant: on error the new messages of the failed turn are cut off again
sendFold_Truncate(msgs, conv, result) ==
    IF IsSome(result.err)
    THEN [arrs |-> msgs,
          ret |-> [conv |-> [conv EXCEPT !.Messages.n = IF @ > 0 THEN @ - 1 ELSE 0],
                   resp |-> None, err |-> result.err]]
    ELSE LET ap == GoAppend(msgs, conv.Messages, <<Get(result.resp).Message>>, ZeroMessage)
         IN [arrs |-> ap.arrs,
             ret |-> [conv |-> [conv EXCEPT !.Messages = ap.s,
                                            !.Usage = Add(conv.Usage, Get(result.resp).Usage)],
                      resp |-> result.resp,
                      err |-> None]]

\* mutant: the reply is put in place of the last message instead of appended
sendFold_Overwrite(msgs, conv, result) ==
    IF IsSome(result.err)
    THEN [arrs |-> msgs, ret |-> [conv |-> conv, resp |-> None, err |-> result.err]]
    ELSE LET keep == [conv.Messages EXCEPT !.n = IF @ > 0 THEN @ - 1 ELSE 0]
             ap == GoAppend(msgs, keep, <<Get(result.resp).Message>>, ZeroMessage)
         IN [arrs |-> ap.arrs,
             ret |-> [conv |-> [conv EXCEPT !.Messages = ap.s,
                                            !.Usage = Add(conv.Usage, Get(result.resp).Usage)],
                      resp |-> result.resp,
                      err |-> None]]

\* mutant: a placeholder assistant message is appended before the error check
sendFold_Placeholder(msgs, conv, result) ==
    LET m == IF IsSome(result.err)
             THEN [Role |-> RoleAssistant, Content |-> NilSlice, ToolCallID |-> ""]
             ELSE Get(result.resp).Message
        ap == GoAppend(msgs, conv.Messages, <<m>>, ZeroMessage)
    IN IF IsSome(result.err)
       THEN [arrs |-> ap.arrs,
             ret |-> [conv |-> [conv EXCEPT !.Messages = ap.s], resp |-> None,
                      err |-> result.err]]
       ELSE [arrs |-> ap.arrs,
             ret |-> [conv |-> [conv EXCEPT !.Messages = ap.s,
                                            !.Usage = Add(conv.Usage, Get(result.resp).Usage)],
                      resp |-> result.resp,
                      err |-> None]]

\* the end of Send: on error the copy as it is; otherwise the reply appended
\* and the usage accumulated.  Returns the arrays and (conv, resp, err).
sendFold(msgs, conv, result) ==
    IF IsSome(result.err)
    THEN [arrs |-> msgs, ret |-> [conv |-> conv, resp |-> None, err |-> result.err]]
    ELSE LET ap == GoAppend(msgs, conv.Messages, <<Get(result.resp).Message>>, ZeroMessage)
         IN [arrs |-> ap.arrs,
             ret |-> [conv |-> [conv EXCEPT !.Messages = ap.s,
                                            !.Usage = Add(conv.Usage, Get(result.resp).Usage)],
                      resp |-> result.resp,
                      err |-> None]]

\* fn has returned to Send
SendReturn ==
    /\ pc = "ret"
    /\ frame.op = "Send"
    /\ frame.stack = <<>>
    /\ LET f == sendFold(heap.msgs, frame.conv, frame.result)
       IN /\ heap' = [heap EXCEPT !.msgs = f.arrs]
          /\ frame' = [frame EXCEPT !.ret = f.ret]
    /\ pc' = "returned"
    /\ UNCHANGED <<client, cur, sends, usage0, turnSum, other>>

\* ghost: counter-by-counter sum
SumUsage(a, b) == [k \in DOMAIN a |-> a[k] + b[k]]

\* the caller goes on: after a successful Send either with the conversation
\* Send returned (conv, resp, err = client.Send(ctx, conv, ...)) or with the
\* one it had; after a failure with the one it had
CallerContinue ==
    /\ pc = "returned"
    /\ \E adopt \in BOOLEAN :
          /\ adopt => (frame.op = "Send" /\ ~IsSome(frame.ret.err))
          /\ cur' = IF adopt THEN frame.ret.conv ELSE cur
          /\ heap' = Collect(heap, cur')
          /\ turnSum' = IF adopt
                        THEN SumUsage(turnSum, Get(frame.ret.resp).Usage)
                        ELSE turnSum
    /\ sends' = sends + 1
    /\ frame' = EmptyFrame
    /\ pc' = "idle"
    /\ UNCHANGED <<client, usage0, other>>

(* ------------------------------ Complete ------------------------------- *)

Requests == {[Model |-> ModelHaiku, Provider |-> p] : p \in {"", "anthropic", "openai", "gemini"}}

InvokeOutcomes ==
    {[ok |-> TRUE, body |-> b, err |-> ErrOpaque] : b \in {"good", "malformed", "nochoices"}}
    \cup {[ok |-> FALSE, body |-> "", err |-> e] : e \in {ErrThrottling, ErrCanceled}}

\* mutant: the client's default provider takes precedence over req.Provider
resolveProvider_DefaultFirst(req) ==
    IF client.defaultProvider # "" THEN client.defaultProvider ELSE req.Provider

\* provider := req.Provider; if provider == "" { provider = c.defaultProvider }
resolveProvider(req) == IF req.Provider = "" THEN client.defaultProvider ELSE req.Provider

\* Complete up to the call of fn: provider resolution, then the chain
CallComplete ==
    /\ pc = "idle"
    /\ client.api = "complete"
    /\ sends < MaxSends
    /\ \E req \in Requests :
          LET provider == resolveProvider(req)
              f == [EmptyFrame EXCEPT !.op = "Complete", !.req = req, !.provider = provider]
          IN IF provider = ""
             THEN /\ frame' = [f EXCEPT !.ret.err =
                                  Some(LLMError(ErrConfig, "", MsgNoProvider, None))]
                  /\ pc' = "returned"
             ELSE IF provider \notin client.adapters
             THEN /\ frame' = [f EXCEPT !.ret.err =
                                  Some(LLMError(ErrConfig, provider, MsgNoAdapter, None))]
                  /\ pc' = "returned"
             ELSE /\ frame' = [f EXCEPT !.fn = Wrap(client.middleware),
                                        !.nexts = [i \in 1..Len(client.middleware) |-> 0]]
                  /\ pc' = "call"
    /\ UNCHANGED <<client, heap, cur, sends, usage0, turnSum, other>>

\* core of Complete, first half: BuildInvokeInput and the call of InvokeModel
CompleteCore ==
    /\ pc = "call"
    /\ frame.op = "Complete"
    /\ Head(frame.fn) = Core
    /\ frame' = [frame EXCEPT
                    !.wire = Some([ModelID |-> frame.req.Model]),
                    !.calls = @ + 1,
                    !.order = Append(@, [ev |-> "core", mw |-> Core])]
    /\ pc' = "inflight"
    /\ UNCHANGED <<client, heap, cur, sends, usage0, turnSum, other>>

\* adapter.ParseResponse: the Anthropic adapter's is not implemented, the
\* OpenAI adapter's fails on a body it cannot unmarshal or without choices
parseResponse(provider, body) ==
    IF provider = "anthropic"
    THEN [resp |-> None, err |-> Some(LLMError(ErrAdapter, "anthropic", MsgNotImplemented, None))]
    ELSE IF body = "malformed"
    THEN [resp |-> None, err |-> Some(LLMError(ErrAdapter, "openai", MsgUnmarshal, None))]
    ELSE IF body = "nochoices"
    THEN [resp |-> None, err |-> Some(LLMError(ErrAdapter, "openai", MsgNoChoices, None))]
    ELSE [resp |-> Some([Message |-> ZeroMessage, FinishReason |-> FinishReasonStop,
                         Usage |-> ZeroUsage]),
          err |-> None]

\* core of Complete, second half: InvokeModel returns and core returns
InvokeModelReply ==
    /\ pc = "inflight"
    /\ frame.op = "Complete"
    /\ \E outcome \in InvokeOutcomes :
          frame' = [frame EXCEPT
                       !.result = IF outcome.ok
                                  THEN parseResponse(frame.provider, outcome.body)
                                  ELSE [resp |-> None,
                                        err |-> Some(LLMError(classifyKind(outcome.err),
                                                              frame.provider, outcome.err.msg,
                                                              Some(outcome.err)))]]
    /\ pc' = "ret"
    /\ UNCHANGED <<client, heap, cur, sends, usage0, turnSum, other>>

\* return fn(ctx, req)
CompleteReturn ==
    /\ pc = "ret"
    /\ frame.op = "Complete"
    /\ frame.stack = <<>>
    /\ frame' = [frame EXCEPT !.ret = [conv |-> frame.conv, resp |-> frame.result.resp,
                                       err |-> frame.result.err]]
    /\ pc' = "returned"
    /\ UNCHANGED <<client, heap, cur, sends, usage0, turnSum, other>>

(* --------------------------- specification ----------------------------- *)

Next ==
    \/ CallSend
    \/ MwEnter
    \/ SendCore
    \/ ConverseReply
    \/ MwExit
    \/ SendReturn
    \/ CallerContinue
    \/ CallComplete
    \/ CompleteCore
    \/ InvokeModelReply
    \/ CompleteReturn

Spec == Init /\ [][Next]_vars

(* ------------------------------ properties ----------------------------- *)

\* a Send call is in progress or has just returned
InSend == frame.op = "Send"

SendReturned == pc = "returned" /\ frame.op = "Send"

SendFailed == SendReturned /\ IsSome(frame.ret.err)

SendSucceeded == SendReturned /\ ~IsSome(frame.ret.err)

C3_SuccessAppendsTurn ==
    (SendSucceeded /\ ~frame.touched) =>
        LET rc == DeepConv(heap, frame.ret.conv)
            reply == DeepMsg(heap, Get(frame.ret.resp).Message)
        IN /\ rc.Messages = (frame.orig.Messages \o frame.newMsgs) \o <<reply>>
           /\ Len(rc.Messages) = Len(frame.orig.Messages) + Len(frame.newMsgs) + 1
           /\ reply.Role = RoleAssistant
           /\ rc.Model = frame.orig.Model
           /\ rc.System = frame.orig.System
           /\ rc.Tools = frame.orig.Tools
           /\ rc.Config = frame.orig.Config

\* the roles of a message list
Roles(msgs) == [i \in 1..Len(msgs) |-> msgs[i].Role]

\* C3 witness: the second of two successful sends from an empty
\* conversation, a user message and then one tool-result message: 4 messages
C3_Witness ==
    /\ SendSucceeded
    /\ sends = 1
    /\ Roles(DeepMessages(heap, frame.ret.conv.Messages))
         = <<RoleUser, RoleAssistant, RoleTool, RoleAssistant>>
    /\ Len(ToolCalls(DeepMessages(heap, frame.ret.conv.Messages)[2])) = 1
    /\ Len(ToolCalls(DeepMessages(heap, frame.ret.conv.Messages)[4])) = 0

\* C4: after any sequence of successful Sends, each from the conversation
\* the previous one returned, the conversation's usage is, counter by
\* counter, the initial usage plus the sum of the usage of the turn results.
C4_UsageIsSumOfTurns ==
    /\ cur.Usage = SumUsage(usage0, turnSum)
    /\ SendSucceeded =>
          frame.ret.conv.Usage = SumUsage(cur.Usage, Get(frame.ret.resp).Usage)

\* C4 witness: two successful sends folded in, with cache counters in play
C4_Witness ==
    /\ pc = "idle"
    /\ sends >= 2
    /\ turnSum.InputTokens >= 18
    /\ turnSum.CacheReadTokens > 0
    /\ turnSum.CacheWriteTokens > 0
    /\ usage0.InputTokens > 0

\* C5: a failed Send commits nothing of the failed turn: the conversation it
\* returns has the usage counters of the input conversation and no message
\* beyond the caller's and the new ones, and no response is returned.
C5_FailureCommitsNothing ==
    SendFailed =>
        /\ frame.ret.conv.Usage = frame.orig.Usage
        /\ frame.ret.conv.Messages.n = Len(frame.orig.Messages) + Len(frame.newMsgs)
        /\ \A i \in 1..Len(frame.newMsgs) :
              DeepMessages(heap, frame.ret.conv.Messages)[Len(frame.orig.Messages) + i].Role
                 = frame.newMsgs[i].Role
        /\ ~IsSome(frame.ret.resp)

\* C5 witness: a Send on a conversation with usage failed after the
\* transport was called
C5_Witness ==
    /\ SendFailed
    /\ frame.calls = 1
    /\ frame.orig.Usage.InputTokens > 0
    /\ Len(frame.newMsgs) > 0

\* C6 as stated: every non-nil error Send returns when no middleware is
\* registered is an *Error with a Kind of the taxonomy, whether the
\* transport call failed or the reply could not be translated.
C6_EveryErrorIsLLMError ==
    (SendFailed /\ Len(client.middleware) = 0) =>
        /\ Get(frame.ret.err).llm
        /\ Get(frame.ret.err).Kind \in ErrorKind

\* C7: a Send calls the transport at most once, and when every middleware
\* has called its next exactly once (also when there is none) it has called
\* it exactly once by the time it returns, whether the call succeeded or
\* failed: there is no second call after a failure.
C7_TransportCalledOnce ==
    InSend =>
        /\ frame.calls <= 1
        /\ (SendReturned /\ \A m \in DOMAIN frame.nexts : frame.nexts[m] = 1)
              => frame.calls = 1
        /\ IsSome(frame.outcome) => (frame.calls = 1 /\ pc \in {"ret", "returned"})

\* C7 witness: a Send through two middlewares, each of which called next
\* once, returned the failure of its one transport call
C7_Witness ==
    /\ SendFailed
    /\ Len(client.middleware) = 2
    /\ \A m \in DOMAIN frame.nexts : frame.nexts[m] = 1
    /\ IsSome(frame.outcome)
    /\ ~Get(frame.outcome).ok
    /\ frame.calls = 1

\* C8: with middlewares registered as m1..mn, a call of Send or Complete
\* whose chain ran to the end has run the code before next of m1, ..., mn
\* in that order, then core, then the code after next of mn, ..., m1.
C8_OnionOrder ==
    (/\ pc = "returned"
     /\ frame.fn # <<>>
     /\ \A m \in DOMAIN frame.nexts : frame.nexts[m] = 1) =>
        LET n == Len(client.middleware)
        IN frame.order =
              ([i \in 1..n |-> [ev |-> "before", mw |-> client.middleware[i]]]
               \o <<[ev |-> "core", mw |-> Core]>>)
              \o [i \in 1..n |-> [ev |-> "after", mw |-> client.middleware[n + 1 - i]]]

\* C8 witness: a Send through two middlewares that both called next returned
C8_Witness ==
    /\ SendReturned
    /\ Len(client.middleware) = 2
    /\ Len(frame.order) = 5
    /\ frame.order[1].mw = client.middleware[1]
    /\ frame.order[5].mw = client.middleware[1]
    /\ frame.order[3].ev = "core"

\* the transport returned the error of a cancelled context to this Send
Cancelled ==
    /\ SendFailed
    /\ IsSome(frame.outcome)
    /\ ~Get(frame.outcome).ok
    /\ Get(frame.outcome).err = ErrCanceled

C10_ToolResultsMerged ==
    (InSend /\ pc = "inflight") =>
        LET msgs == DeepMessages(heap, frame.conv.Messages)
            wire == Get(frame.wire).Messages
            pairs == {i \in 1..(Len(msgs) - 1) :
                        msgs[i].Role = RoleTool /\ msgs[i + 1].Role = RoleTool}
        IN /\ Len(wire) = Len(msgs) - Cardinality(pairs)
           /\ \A i \in pairs :
                 \E w \in 1..Len(wire) :
                    /\ wire[w].Role = "user"
                    /\ \E j \in 1..(Len(wire[w].Content) - 1) :
                          /\ <<wire[w].Content[j]>>
                                = converseBlocks(msgs[i].Content[1], FALSE)
                          /\ <<wire[w].Content[j + 1]>>
                                = converseBlocks(msgs[i + 1].Content[1], FALSE)

(* ------------------------- the Anthropic adapter ------------------------ *)

\* the role translateMessage assigns; a role outside its switch leaves ""
anthropicRole(role) ==
    IF role = RoleUser THEN "user"
    ELSE IF role = RoleAssistant THEN "assistant"
    ELSE IF role = RoleTool THEN "user"
    ELSE ""

\* the anthropicContent one part contributes (none for an image)
anthropicBlocks(p) ==
    IF p.Kind = ContentText
    THEN <<[Type |-> "text", Text |-> p.Text, CacheControl |-> None]>>
    ELSE IF p.Kind = ContentToolCall
    THEN <<[Type |-> "tool_use", ID |-> Get(p.ToolCall).ID, Name |-> Get(p.ToolCall).Name,
            Input |-> Get(p.ToolCall).Arguments, CacheControl |-> None]>>
    ELSE IF p.Kind = ContentToolResult
    THEN <<[Type |-> "tool_result", ToolUseID |-> Get(p.ToolResult).ToolCallID,
            Content |-> Get(p.ToolResult).Content, CacheControl |-> None]>>
    ELSE IF p.Kind = ContentThinking
    THEN <<[Type |-> "thinking", Thinking |-> Get(p.Thinking).Text,
            Signature |-> Get(p.Thinking).Signature, CacheControl |-> None]>>
    ELSE <<>>

RECURSIVE anthropicContent(_)
\* the loop over m.Content of translateMessage
anthropicContent(parts) ==
    IF parts = <<>> THEN <<>>
    ELSE anthropicBlocks(Head(parts)) \o anthropicContent(Tail(parts))

\* AnthropicAdapter.translateMessage
translateMessage(m) == [Role |-> anthropicRole(m.Role), Content |-> anthropicContent(m.Content)]

RECURSIVE anthropicSystemTexts(_)
\* the text parts of the system messages, in order
anthropicSystemTexts(msgs) ==
    IF msgs = <<>> THEN <<>>
    ELSE (IF Head(msgs).Role = RoleSystem
          THEN LET ps == SelectSeq(Head(msgs).Content, LAMBDA p : p.Kind = ContentText)
               IN [i \in 1..Len(ps) |->
                      [Type |-> "text", Text |-> ps[i].Text, CacheControl |-> None]]
          ELSE <<>>)
         \o anthropicSystemTexts(Tail(msgs))

\* ar.System: the system texts, the last one carrying cache_control
anthropicSystem(msgs) ==
    LET texts == anthropicSystemTexts(msgs)
    IN [i \in 1..Len(texts) |->
           IF i = Len(texts) THEN [texts[i] EXCEPT !.CacheControl = Some("ephemeral")]
           ELSE texts[i]]

\* nonSystem: the messages whose role is not RoleSystem
nonSystem(msgs) == SelectSeq(msgs, LAMBDA m : m.Role # RoleSystem)

\* mutant: every translated message is appended, whatever the last role
mergeStep_NoMerge(wire, am) == Append(wire, am)

\* one round of the translation loop: am joins the last wire message when
\* the roles are equal, and is appended otherwise
mergeStep(wire, am) ==
    IF Len(wire) > 0 /\ wire[Len(wire)].Role = am.Role
    THEN [wire EXCEPT ![Len(wire)].Content = @ \o am.Content]
    ELSE Append(wire, am)

RECURSIVE anthropicMessages(_, _)
\* the translation loop over nonSystem, from the wire list built so far
anthropicMessages(wire, msgs) ==
    IF msgs = <<>> THEN wire
    ELSE anthropicMessages(mergeStep(wire, translateMessage(Head(msgs))), Tail(msgs))

\* ar.Tools before the tool choice is looked at: cache_control on the last
anthropicTools(tools) ==
    [i \in 1..Len(tools) |->
        [Name |-> tools[i].Name, Description |-> tools[i].Description,
         InputSchema |-> tools[i].Parameters,
         CacheControl |-> IF i = Len(tools) THEN Some("ephemeral") ELSE None]]

\* ar.ToolChoice
anthropicToolChoice(tc) ==
    IF ~IsSome(tc) THEN None
    ELSE IF Get(tc).Mode = ToolChoiceAuto THEN Some([type |-> "auto", name |-> ""])
    ELSE IF Get(tc).Mode = ToolChoiceRequired THEN Some([type |-> "any", name |-> ""])
    ELSE IF Get(tc).Mode = ToolChoiceNamed
    THEN Some([type |-> "tool", name |-> Get(tc).ToolName])
    ELSE None

\* json.Marshal(ar) fails on a json.RawMessage that is not valid JSON
anthropicMarshals(ar) ==
    /\ \A i \in 1..Len(ar.Tools) : ar.Tools[i].InputSchema.state # "malformed"
    /\ \A i \in 1..Len(ar.Messages) : \A j \in 1..Len(ar.Messages[i].Content) :
          ar.Messages[i].Content[j].Type = "tool_use"
             => ar.Messages[i].Content[j].Input.state # "malformed"

\* AnthropicAdapter.BuildInvokeInput: the request body before marshalling
\* and the error of json.Marshal
anthropicBuildInvokeInput(req) ==
    LET none == IsSome(req.ToolChoice) /\ Get(req.ToolChoice).Mode = ToolChoiceNone
        ar == [AnthropicVersion |-> "bedrock-2023-05-31",
               MaxTokens |-> IF IsSome(req.MaxTokens) THEN Get(req.MaxTokens) ELSE 4096,
               System |-> anthropicSystem(req.Messages),
               Messages |-> anthropicMessages(<<>>, nonSystem(req.Messages)),
               Tools |-> IF none THEN <<>> ELSE anthropicTools(req.Tools),
               ToolChoice |-> anthropicToolChoice(req.ToolChoice),
               Temperature |-> req.Temperature,
               TopP |-> req.TopP,
               StopSequences |-> req.StopSequences]
    IN IF anthropicMarshals(ar)
       THEN [ok |-> TRUE, ModelID |-> req.Model, Body |-> ar, err |-> None]
       ELSE [ok |-> FALSE, ModelID |-> req.Model, Body |-> ar,
             err |-> Some(LLMError(ErrAdapter, "anthropic", MsgMarshal, None))]

(* -------------------------- the OpenAI adapter -------------------------- *)

\* Message.Text: the texts of the text parts, in order (the string is their
\* concatenation)
Text(m) ==
    LET ps == SelectSeq(m.Content, LAMBDA p : p.Kind = ContentText)
    IN [i \in 1..Len(ps) |-> ps[i].Text]

\* text == "" for a concatenation given by its pieces
IsEmptyText(t) == \A i \in 1..Len(t) : t[i] = ""

\* the tool_calls of an assistant message
openaiToolCalls(m) ==
    LET ps == SelectSeq(m.Content, LAMBDA p : p.Kind = ContentToolCall /\ IsSome(p.ToolCall))
    IN [i \in 1..Len(ps) |->
           [ID |-> Get(ps[i].ToolCall).ID, Type |-> "function",
            Function |-> [Name |-> Get(ps[i].ToolCall).Name,
                          Arguments |-> Get(ps[i].ToolCall).Arguments]]]

\* the content of a tool message: that of its first tool-result part
openaiToolContent(m) ==
    LET ps == SelectSeq(m.Content, LAMBDA p : p.Kind = ContentToolResult /\ IsSome(p.ToolResult))
    IN IF Len(ps) > 0 THEN Some(<<Get(ps[1].ToolResult).Content>>) ELSE None

\* OpenAIAdapter.translateMessage; Content is null (None) or a string
openaiTranslateMessage(m) ==
    IF m.Role = RoleSystem
    THEN [Role |-> "system", Content |-> Some(Text(m)), ToolCalls |-> <<>>, ToolCallID |-> ""]
    ELSE IF m.Role = RoleUser
    THEN [Role |-> "user", Content |-> Some(Text(m)), ToolCalls |-> <<>>, ToolCallID |-> ""]
    ELSE IF m.Role = RoleAssistant
    THEN [Role |-> "assistant",
          Content |-> IF Len(openaiToolCalls(m)) > 0 /\ IsEmptyText(Text(m))
                      THEN None ELSE Some(Text(m)),
          ToolCalls |-> openaiToolCalls(m), ToolCallID |-> ""]
    ELSE IF m.Role = RoleTool
    THEN [Role |-> "tool", Content |-> openaiToolContent(m), ToolCalls |-> <<>>,
          ToolCallID |-> m.ToolCallID]
    ELSE [Role |-> "", Content |-> None, ToolCalls |-> <<>>, ToolCallID |-> ""]

\* or.Tools
openaiTools(tools) ==
    [i \in 1..Len(tools) |->
        [Type |-> "function",
         Function |-> [Name |-> tools[i].Name, Description |-> tools[i].Description,
                       Parameters |-> tools[i].Parameters]]]

\* mutant: ToolChoiceNone leaves the tool_choice field unset
openaiToolChoice_NoneUnset(tc) ==
    IF ~IsSome(tc) THEN None
    ELSE IF Get(tc).Mode = ToolChoiceAuto THEN Some([type |-> "auto", name |-> ""])
    ELSE IF Get(tc).Mode = ToolChoiceRequired THEN Some([type |-> "required", name |-> ""])
    ELSE IF Get(tc).Mode = ToolChoiceNamed
    THEN Some([type |-> "function", name |-> Get(tc).ToolName])
    ELSE None

\* or.ToolChoice: a string, or for a named tool {"type": "function",
\* "function": {"name": ...}}; unset for no policy or an unknown mode
openaiToolChoice(tc) ==
    IF ~IsSome(tc) THEN None
    ELSE IF Get(tc).Mode = ToolChoiceAuto THEN Some([type |-> "auto", name |-> ""])
    ELSE IF Get(tc).Mode = ToolChoiceNone THEN Some([type |-> "none", name |-> ""])
    ELSE IF Get(tc).Mode = ToolChoiceRequired THEN Some([type |-> "required", name |-> ""])
    ELSE IF Get(tc).Mode = ToolChoiceNamed
    THEN Some([type |-> "function", name |-> Get(tc).ToolName])
    ELSE None

\* json.Marshal(or) fails on a json.RawMessage that is not valid JSON
openaiMarshals(or) ==
    \A i \in 1..Len(or.Tools) : or.Tools[i].Function.Parameters.state # "malformed"

\* OpenAIAdapter.BuildInvokeInput: the request body before marshalling and
\* the error of json.Marshal
openaiBuildInvokeInput(req) ==
    LET or == [Model |-> req.Model,
               Messages |-> [i \in 1..Len(req.Messages) |->
                                openaiTranslateMessage(req.Messages[i])],
               Tools |-> openaiTools(req.Tools),
               ToolChoice |-> openaiToolChoice(req.ToolChoice),
               Temperature |-> req.Temperature,
               TopP |-> req.TopP,
               MaxTokens |-> req.MaxTokens,
               Stop |-> req.StopSequences,
               ReasoningEffort |-> req.ReasoningEffort]
    IN IF openaiMarshals(or)
       THEN [ok |-> TRUE, ModelID |-> req.Model, Body |-> or, err |-> None]
       ELSE [ok |-> FALSE, ModelID |-> req.Model, Body |-> or,
             err |-> Some(LLMError(ErrAdapter, "openai", MsgMarshal, None))]

(* ------------------------------ ParseArgs ------------------------------ *)

\* Param, as newParam builds it
Param(name, type, required) == [Name |-> name, Type |-> type, Required |-> required]

\* NewTool: the definition keeps the params it was built from; its schema
\* is the marshalled JSON Schema of those params
NewTool(name, description, params) ==
    [Name |-> name, Description |-> description,
     Parameters |-> RawJSON("valid", [properties |-> [i \in 1..Len(params) |-> params[i].Name],
                                       required |-> SelectSeq(params, LAMBDA q : q.Required)]),
     params |-> params]

\* a JSON value (its type and its text) and the dynamic type json.Unmarshal gives it inside a
\* map[string]any
JSON(jt, v) == [jt |-> jt, v |-> v]
GoType(j) ==
    IF j.jt = "string" THEN "string"
    ELSE IF j.jt = "number" THEN "float64"
    ELSE IF j.jt = "boolean" THEN "bool"
    ELSE IF j.jt = "object" THEN "map"
    ELSE IF j.jt = "array" THEN "slice"
    ELSE "nil"

\* mutant: an absent required parameter is passed over like an optional one
paramError_NoRequiredCheck(q, args) ==
    IF q.Name \notin DOMAIN args THEN None
    ELSE LET got == GoType(args[q.Name])
         IN IF q.Type = "string" /\ got # "string"
            THEN Some(PlainError(<<"expected string", q.Name>>))
            ELSE IF q.Type \in {"number", "integer"} /\ got # "float64"
            THEN Some(PlainError(<<"expected number", q.Name>>))
            ELSE IF q.Type = "boolean" /\ got # "bool"
            THEN Some(PlainError(<<"expected boolean", q.Name>>))
            ELSE None

\* one round of the loop over td.params: the error it returns, if any
paramError(q, args) ==
    IF q.Name \notin DOMAIN args
    THEN IF q.Required
         THEN Some(PlainError(<<"missing required parameter", q.Name>>))
         ELSE None
    ELSE LET got == GoType(args[q.Name])
         IN IF q.Type = "string" /\ got # "string"
            THEN Some(PlainError(<<"expected string", q.Name>>))
            ELSE IF q.Type \in {"number", "integer"} /\ got # "float64"
            THEN Some(PlainError(<<"expected number", q.Name>>))
            ELSE IF q.Type = "boolean" /\ got # "bool"
            THEN Some(PlainError(<<"expected boolean", q.Name>>))
            ELSE None

RECURSIVE paramsError_LastWins(_, _)
\* mutant: the loop goes on after an error and returns the last one
paramsError_LastWins(params, args) ==
    IF params = <<>> THEN None
    ELSE LET rest == paramsError_LastWins(Tail(params), args)
         IN IF IsSome(rest) THEN rest ELSE paramError(Head(params), args)

RECURSIVE paramsError(_, _)
\* the loop over td.params: it returns at the first error
paramsError(params, args) ==
    IF params = <<>> THEN None
    ELSE IF IsSome(paramError(Head(params), args)) THEN paramError(Head(params), args)
    ELSE paramsError(Tail(params), args)

\* ToolDefinition.ParseArgs: (args, err)
ParseArgs(td, tc) ==
    LET raw == tc.Arguments
        bad == \/ raw.state = "malformed"
               \/ raw.state = "valid" /\ raw.doc.jt \notin {"object", "null"}
        args == IF raw.state = "valid" /\ raw.doc.jt = "object" THEN raw.doc.v ELSE <<>>
    IN IF bad
       THEN [ok |-> FALSE, args |-> <<>>, err |-> Some(PlainError(<<"json", "">>))]
       ELSE IF IsSome(paramsError(td.params, args))
       THEN [ok |-> FALSE, args |-> <<>>, err |-> paramsError(td.params, args)]
       ELSE [ok |-> TRUE, args |-> args, err |-> None]

\* json.Marshal of a ToolDefinition: an object with the exported fields
\* under their tags; the unexported params field is not encoded
marshalToolDefinition(td) ==
    [name |-> td.Name, description |-> td.Description, parameters |-> td.Parameters]

\* json.Unmarshal into a ToolDefinition: the exported fields from the
\* object, params left at its zero value
unmarshalToolDefinition(doc) ==
    [Name |-> doc.name, Description |-> doc.description, Parameters |-> doc.parameters,
     params |-> <<>>]

(* ---------------------- the operations, one by one ---------------------- *)

\* an assistant message with a thinking part and a tool call
MessagePool_ToolTurn ==
    [Role |-> RoleAssistant,
     Content |-> <<ThinkingPart("hm", "sig"),
                   ToolCallPart("c1", "get_user", RawJSON("valid", ArgsDoc))>>,
     ToolCallID |-> ""]

\* an assistant message with a thinking part between a text and a tool
\* call, and a part of kind thinking whose Thinking pointer is nil
MessagePool_ThinkingTurn ==
    [Role |-> RoleAssistant,
     Content |-> <<TextPart("let me see"), ThinkingPart("hm", "sig"),
                   ToolCallPart("c1", "get_user", RawJSON("valid", ArgsDoc)),
                   ContentPart(ContentThinking, "", None, None, None, None),
                   TextPart("one moment")>>,
     ToolCallID |-> ""]

\* the messages requests are made of
MessagePool ==
    {SystemMessage("be brief"), UserMessage("hi"), UserMessage("more"),
     AssistantMessage("hello"),
     MessagePool_ToolTurn,
     ToolResultMessage("c1", "ok", FALSE),
     [Role |-> RoleUser,
      Content |-> <<ContentPart(ContentImage, "", Some([MediaType |-> <<>>, Data |-> <<>>]),
                                None, None, None)>>,
      ToolCallID |-> ""]}

RECURSIVE SeqsUpTo(_, _)
\* the sequences over S of length at most n
SeqsUpTo(S, n) ==
    IF n = 0 THEN {<<>>}
    ELSE LET shorter == SeqsUpTo(S, n - 1)
         IN shorter \cup {Append(q, x) : q \in {r \in shorter : Len(r) = n - 1}, x \in S}

\* a Request (Complete generation)
Request(model, messages, tools, toolChoice, maxTokens) ==
    [Model |-> model, Provider |-> "", Messages |-> messages, Tools |-> tools,
     ToolChoice |-> toolChoice, Temperature |-> None, TopP |-> None,
     MaxTokens |-> maxTokens, StopSequences |-> <<>>, ReasoningEffort |-> ""]

\* the i-th system text and the i-th declared tool of a conversation; the
\* second tool has a schema that is not valid JSON and no description
SysText(i) == IF i = 1 THEN "be brief" ELSE IF i = 2 THEN "be kind" ELSE "be exact"
ToolNames == <<"get_user", "other", "get_order", "get_item", "get_cart">>
DeclaredTool(i) ==
    IF i = 1 THEN UserTool
    ELSE IF i = 2 THEN OtherTool
    ELSE ToolDefinition(ToolNames[IF i <= 5 THEN i ELSE 5], "A tool", RawJSON("valid", "schema"))

\* the tool-choice policies of a Config
ToolChoices ==
    {None, Some([Mode |-> ToolChoiceAuto, ToolName |-> ""]),
     Some([Mode |-> ToolChoiceNone, ToolName |-> ""]),
     Some([Mode |-> ToolChoiceRequired, ToolName |-> ""]),
     Some([Mode |-> ToolChoiceNamed, ToolName |-> "get_user"])}

\* the requests handed to an adapter: every message list with one tool or
\* none, and two conversations with every tool list and tool-choice policy
AdapterRequests ==
    {Request(ModelHaiku, ms, ts, tc, None) :
        ms \in SeqsUpTo(MessagePool, MaxMsgs),
        ts \in {<<>>, <<UserTool>>},
        tc \in {None, Some([Mode |-> ToolChoiceNone, ToolName |-> ""])}}
    \cup {Request(ModelHaiku, ms, [i \in 1..nt |-> DeclaredTool(i)], tc, None) :
             ms \in {<<UserMessage("hi")>>,
                     <<UserMessage("hi"), MessagePool_ToolTurn,
                       ToolResultMessage("c1", "ok", FALSE)>>},
             nt \in 0..MaxTools, tc \in ToolChoices}

\* the conversations handed to toConverseInput, slices by value
Conversations ==
    {[Model |-> model,
      System |-> [i \in 1..ns |-> SysText(i)],
      Messages |-> ms,
      Tools |-> [i \in 1..nt |-> DeclaredTool(i)],
      Config |-> Config(mt, None, None, <<>>, tc),
      Usage |-> ZeroUsage] :
        model \in {ModelHaiku, ModelLlama}, ns \in 0..MaxSys, nt \in 0..MaxTools,
        ms \in {<<>>, <<UserMessage("hi")>>,
                <<SystemMessage("be brief"), UserMessage("hi")>>,
                <<UserMessage("hi"), MessagePool_ToolTurn, ToolResultMessage("c1", "ok", FALSE)>>,
                <<UserMessage("hi"), MessagePool_ThinkingTurn,
                  ToolResultMessage("c1", "ok", FALSE)>>},
        mt \in {None, Some(4096)}, tc \in ToolChoices}

\* the names parameters are declared under, and a key no tool declares
ParamNames == {"user_id", "order_id"}
ExtraKey == "extra"

\* the parameter lists of a tool: up to MaxParams parameters of every type,
\* required and optional (a name may be declared more than once)
ParamLists ==
    SeqsUpTo({Param(n, t, r) : n \in ParamNames,
                               t \in {"string", "number", "integer", "boolean"},
                               r \in BOOLEAN}, MaxParams)

\* the JSON values of an argument
ArgValues == {JSON("string", "x"), JSON("number", "1"), JSON("boolean", "true"), JSON("null", "null")}

\* the JSON objects a tool call carries: any of the declared names and the
\* extra key, each absent or with a value
ArgObjects ==
    UNION {[K -> ArgValues] :
              K \in SUBSET (ParamNames \cup {ExtraKey})}

\* the arguments of a tool call: none, an object, or bytes that do not parse
ToolArguments ==
    {RawJSON("empty", JSON("null", "null")), RawJSON("malformed", JSON("null", "null"))}
    \cup {RawJSON("valid", JSON("object", o)) :
             o \in {a \in ArgObjects : ExtraKey \in DOMAIN a => a[ExtraKey].jt = "string"}}

\* the calls of ParseArgs
ParseArgsCalls ==
    {[td |-> NewTool("get_order", "Get an order", ps),
      tc |-> [ID |-> "c1", Name |-> "get_order", Arguments |-> a]] :
        ps \in ParamLists, a \in ToolArguments}

\* the calls of ParseArgs on a definition that was stored and loaded
RestoredParseArgsCalls ==
    {[stored |-> NewTool("get_order", "Get an order", ps),
      call |-> [ID |-> "c1", Name |-> "get_order", Arguments |-> a]] :
        ps \in SeqsUpTo({Param(n, t, r) : n \in ParamNames, t \in {"string", "integer"},
                                          r \in BOOLEAN}, MaxParams),
        a \in ToolArguments}

\* the errors of the transport: an operation error wrapping one exception
\* type (one the classifier knows, another one, a cancelled context, or
\* none), with each of the messages
ExceptionTypes ==
    {"AccessDeniedException", "ValidationException", "ResourceNotFoundException",
     "ThrottlingException", "ModelTimeoutException", "InternalServerException",
     "ModelErrorException", "ServiceQuotaExceededException", "context.Canceled"}
ErrorMessages ==
    {MsgSlowDown, MsgTooMany, MsgContextLen, MsgFilter, MsgGuardrail, MsgBoth, MsgDenied,
     MsgCanceled}
TransportErrors ==
    {TransportError(ts, m) :
        ts \in {<<"OperationError">>} \cup {<<"OperationError", t>> : t \in ExceptionTypes},
        m \in ErrorMessages}

\* the values of types.StopReason the switch of mapStopReason names, and
\* values a reply can carry that it does not name (the zero value included)
KnownStopReasons ==
    {"end_turn", "stop_sequence", "max_tokens", "model_context_window_exceeded",
     "tool_use", "content_filtered", "guardrail_intervened"}
OtherStopReasons == {"malformed_model_output", "malformed_tool_use", ""}

\* the replies handed to fromConverseOutput
ConverseOutputs ==
    {[o EXCEPT !.StopReason = sr, !.Usage = u] :
        o \in {OutText, OutTool, OutTools, OutOther},
        sr \in KnownStopReasons \cup OtherStopReasons,
        u \in {None, Some(TokenUsage(Some(10), Some(5), None, Some(1)))}}

\* the calls of the operations checked one by one, each with its input
PureCalls ==
    {[op |-> "BuildInvokeInput", in |-> r] : r \in AdapterRequests}
    \cup {[op |-> "OpenAIBuildInvokeInput", in |-> r] : r \in AdapterRequests}
    \cup {[op |-> "toConverseInput", in |-> c] : c \in Conversations}
    \cup {[op |-> "ParseArgs", in |-> c] : c \in ParseArgsCalls}
    \cup {[op |-> "classifyBedrockError", in |-> e] : e \in TransportErrors}
    \cup {[op |-> "fromConverseOutput", in |-> o] : o \in ConverseOutputs}

InitPure ==
    /\ client = [api |-> "pure", middleware |-> <<>>, adapters |-> {"anthropic", "openai"},
                 defaultProvider |-> ""]
    /\ heap = EmptyHeap
    /\ cur = NewConversation(<<>>)
    /\ sends = 0
    /\ usage0 = ZeroUsage
    /\ turnSum = ZeroUsage
    /\ pc = "idle"
    /\ \/ \E c \in PureCalls : frame = [EmptyFrame EXCEPT !.op = c.op, !.req = c.in]
       \/ \E c \in RestoredParseArgsCalls :
             frame = [EmptyFrame EXCEPT !.op = "RestoredParseArgs", !.req = c]
    /\ other = NoGoroutine

\* adapter.BuildInvokeInput(req) of the Anthropic adapter
CallBuildInvokeInput ==
    /\ pc = "idle"
    /\ frame.op = "BuildInvokeInput"
    /\ frame' = [frame EXCEPT !.wire = Some(anthropicBuildInvokeInput(frame.req))]
    /\ pc' = "returned"
    /\ UNCHANGED <<client, heap, cur, sends, usage0, turnSum, other>>

\* adapter.BuildInvokeInput(req) of the OpenAI adapter
CallOpenAIBuildInvokeInput ==
    /\ pc = "idle"
    /\ frame.op = "OpenAIBuildInvokeInput"
    /\ frame' = [frame EXCEPT !.wire = Some(openaiBuildInvokeInput(frame.req))]
    /\ pc' = "returned"
    /\ UNCHANGED <<client, heap, cur, sends, usage0, turnSum, other>>

\* toConverseInput(&conv): it has no error result
CallToConverseInput ==
    /\ pc = "idle"
    /\ frame.op = "toConverseInput"
    /\ frame' = [frame EXCEPT !.wire = Some(toConverseInput(frame.req)),
                              !.result = NoResult]
    /\ pc' = "returned"
    /\ UNCHANGED <<client, heap, cur, sends, usage0, turnSum, other>>

\* args, err := td.ParseArgs(tc)
CallParseArgs ==
    /\ pc = "idle"
    /\ frame.op = "ParseArgs"
    /\ frame' = [frame EXCEPT !.result = ParseArgs(frame.req.td, frame.req.tc)]
    /\ pc' = "returned"
    /\ UNCHANGED <<client, heap, cur, sends, usage0, turnSum, other>>

\* the definition is stored as JSON and loaded again (as part of a
\* Conversation), then args, err := td.ParseArgs(tc) on the loaded one
CallRestoredParseArgs ==
    /\ pc = "idle"
    /\ frame.op = "RestoredParseArgs"
    /\ LET td == unmarshalToolDefinition(marshalToolDefinition(frame.req.stored))
       IN frame' = [frame EXCEPT !.result = ParseArgs(td, frame.req.call)]
    /\ pc' = "returned"
    /\ UNCHANGED <<client, heap, cur, sends, usage0, turnSum, other>>

\* return nil, classifyBedrockError(err)
CallClassifyBedrockError ==
    /\ pc = "idle"
    /\ frame.op = "classifyBedrockError"
    /\ frame' = [frame EXCEPT !.result = [resp |-> None,
                                          err |-> Some(classifyBedrockError(frame.req))]]
    /\ pc' = "returned"
    /\ UNCHANGED <<client, heap, cur, sends, usage0, turnSum, other>>

\* msg, usage, reason, err := fromConverseOutput(output)
CallFromConverseOutput ==
    /\ pc = "idle"
    /\ frame.op = "fromConverseOutput"
    /\ frame' = [frame EXCEPT !.result = fromConverseOutput(frame.req)]
    /\ pc' = "returned"
    /\ UNCHANGED <<client, heap, cur, sends, usage0, turnSum, other>>

NextPure ==
    \/ CallBuildInvokeInput
    \/ CallOpenAIBuildInvokeInput
    \/ CallToConverseInput
    \/ CallParseArgs
    \/ CallRestoredParseArgs
    \/ CallClassifyBedrockError
    \/ CallFromConverseOutput

SpecPure == InitPure /\ [][NextPure]_vars

RECURSIVE Flatten(_)
\* the (role, block) pairs of a wire list, in order
Flatten(wire) ==
    IF wire = <<>> THEN <<>>
    ELSE [j \in 1..Len(Head(wire).Content) |->
             [role |-> Head(wire).Role, block |-> Head(wire).Content[j]]]
         \o Flatten(Tail(wire))

\* C11: in the request AnthropicAdapter.BuildInvokeInput builds no two
\* adjacent wire messages have the same role; the wire list has as many
\* messages as the non-system messages have runs of one wire role, and its
\* blocks, with their roles, are those of the non-system messages one by
\* one, in the original order.
C11_AlternationMerge ==
    (pc = "returned" /\ frame.op = "BuildInvokeInput") =>
        LET wire == Get(frame.wire).Body.Messages
            src == nonSystem(frame.req.Messages)
            each == [i \in 1..Len(src) |-> translateMessage(src[i])]
            changes == {i \in 1..(Len(src) - 1) : each[i].Role # each[i + 1].Role}
        IN /\ \A i \in 1..(Len(wire) - 1) : wire[i].Role # wire[i + 1].Role
           /\ Len(wire) = IF src = <<>> THEN 0 ELSE Cardinality(changes) + 1
           /\ Flatten(wire) = Flatten(each)

\* C11 witness: [user, user, assistant] gave 2 wire messages, the first with
\* the two user texts in order
C11_Witness ==
    /\ pc = "returned"
    /\ frame.op = "BuildInvokeInput"
    /\ frame.req.Messages = <<UserMessage("hi"), UserMessage("more"), AssistantMessage("hello")>>
    /\ Len(Get(frame.wire).Body.Messages) = 2
    /\ Get(frame.wire).Body.Messages[1].Content
          = <<[Type |-> "text", Text |-> "hi", CacheControl |-> None],
              [Type |-> "text", Text |-> "more", CacheControl |-> None]>>
    /\ Get(frame.wire).Body.Messages[2].Role = "assistant"

\* toConverseInput has returned
Translated == pc = "returned" /\ frame.op = "toConverseInput"

\* C12: the cache markers of the request toConverseInput builds: for the
\* Anthropic model, n >= 1 system blocks give n + 1 system entries, the n
\* texts in order and then one marker, and an emitted tool list of m >= 1
\* tools has m + 1 entries, the m specs in order and then one marker; with
\* no system block or no tool there is no marker there, for the other model
\* there is none at all, and no message block is a marker.
C12_CacheMarkers ==
    Translated =>
        LET conv == frame.req
            in == Get(frame.wire)
            n == Len(conv.System)
            m == Len(conv.Tools)
            capable == conv.Model = ModelHaiku
        IN /\ Len(in.System) = IF capable /\ n >= 1 THEN n + 1 ELSE n
           /\ \A i \in 1..n : in.System[i] = [t |-> "text", Value |-> conv.System[i]]
           /\ \A i \in (n + 1)..Len(in.System) : in.System[i].t = "cachePoint"
           /\ IsSome(in.ToolConfig) =>
                 LET tools == Get(in.ToolConfig).Tools
                 IN /\ m >= 1
                    /\ Len(tools) = IF capable THEN m + 1 ELSE m
                    /\ \A i \in 1..m : /\ tools[i].t = "toolSpec"
                                       /\ tools[i].Name = conv.Tools[i].Name
                    /\ \A i \in (m + 1)..Len(tools) : tools[i].t = "cachePoint"
           /\ m = 0 => ~IsSome(in.ToolConfig)
           /\ \A i \in 1..Len(in.Messages) : \A j \in 1..Len(in.Messages[i].Content) :
                 in.Messages[i].Content[j].t # "cachePoint"

\* C12 witness: 2 system blocks and 3 tools for the Anthropic model gave 3
\* system entries and 4 tool entries, the markers last
C12_Witness ==
    /\ Translated
    /\ frame.req.Model = ModelHaiku
    /\ Len(frame.req.System) = 2
    /\ Len(frame.req.Tools) = 3
    /\ Len(Get(frame.wire).System) = 3
    /\ Get(frame.wire).System[3].t = "cachePoint"
    /\ IsSome(Get(frame.wire).ToolConfig)
    /\ Len(Get(Get(frame.wire).ToolConfig).Tools) = 4
    /\ Get(Get(frame.wire).ToolConfig).Tools[4].t = "cachePoint"

\* C13: when the tool-choice policy is none, the request toConverseInput
\* builds has no tool configuration: no tool declaration, no tool-choice
\* field and no tool cache marker, whatever tools are declared.
C13_NoneDropsToolConfig ==
    (/\ Translated
     /\ IsSome(frame.req.Config.ToolChoice)
     /\ Get(frame.req.Config.ToolChoice).Mode = ToolChoiceNone) =>
        ~IsSome(Get(frame.wire).ToolConfig)

\* C13 witness: a conversation with tools for the Anthropic model and the
\* policy none was translated, system and messages in place
C13_Witness ==
    /\ Translated
    /\ frame.req.Model = ModelHaiku
    /\ Len(frame.req.Tools) >= 2
    /\ IsSome(frame.req.Config.ToolChoice)
    /\ Get(frame.req.Config.ToolChoice).Mode = ToolChoiceNone
    /\ ~IsSome(Get(frame.wire).ToolConfig)
    /\ Len(Get(frame.wire).Messages) = 3

\* ParseArgs has returned for arguments that are a JSON object or empty
Parsed ==
    /\ pc = "returned"
    /\ frame.op = "ParseArgs"
    /\ frame.req.tc.Arguments.state # "malformed"

\* the object ParseArgs was given (an empty one for no arguments)
GivenArgs ==
    IF frame.req.tc.Arguments.state = "valid" THEN frame.req.tc.Arguments.doc.v ELSE <<>>

\* a present parameter's JSON value is of its declared type
WellTyped(q, args) ==
    \/ q.Type = "string" /\ args[q.Name].jt = "string"
    \/ q.Type \in {"number", "integer"} /\ args[q.Name].jt = "number"
    \/ q.Type = "boolean" /\ args[q.Name].jt = "boolean"

\* C14: on arguments that are a JSON object or empty, ParseArgs succeeds
\* exactly when every required parameter is present and every declared
\* parameter that is present has a JSON value of its declared type; absent
\* optional parameters and undeclared keys play no part, and on success the
\* arguments are returned with the undeclared keys.
C14_ParseArgsValidates ==
    Parsed =>
        LET params == frame.req.td.params
            args == GivenArgs
        IN /\ frame.result.ok <=>
                 \A i \in 1..Len(params) :
                    /\ params[i].Required => params[i].Name \in DOMAIN args
                    /\ params[i].Name \in DOMAIN args => WellTyped(params[i], args)
           /\ frame.result.ok <=> ~IsSome(frame.result.err)
           /\ frame.result.ok => frame.result.args = args

\* C14 witness: a call with an undeclared key, an absent optional parameter
\* and a well-typed required integer succeeded
C14_Witness ==
    /\ Parsed
    /\ frame.result.ok
    /\ frame.req.td.params = <<Param("user_id", "integer", TRUE), Param("order_id", "string", FALSE)>>
    /\ DOMAIN GivenArgs = {"user_id", ExtraKey}
    /\ ExtraKey \in DOMAIN frame.result.args

\* C15: when every present declared parameter is well-typed and a required
\* parameter is absent, ParseArgs fails with the missing-required error
\* naming the first absent required parameter in declaration order.
C15_MissingRequiredNamed ==
    Parsed =>
        LET params == frame.req.td.params
            args == GivenArgs
            absent == {i \in 1..Len(params) :
                          params[i].Required /\ params[i].Name \notin DOMAIN args}
        IN (/\ absent # {}
            /\ \A i \in 1..Len(params) :
                  params[i].Name \in DOMAIN args => WellTyped(params[i], args)) =>
              /\ ~frame.result.ok
              /\ IsSome(frame.result.err)
              /\ Get(frame.result.err).Message =
                    <<"missing required parameter",
                      params[CHOOSE i \in absent : \A j \in absent : i <= j].Name>>

\* C15 witness: {"user_id": 1} against [required integer user_id, required
\* integer order_id] failed naming order_id
C15_Witness ==
    /\ Parsed
    /\ frame.req.td.params = <<Param("user_id", "integer", TRUE), Param("order_id", "integer", TRUE)>>
    /\ DOMAIN GivenArgs = {"user_id"}
    /\ GivenArgs["user_id"] = JSON("number", "1")
    /\ ~frame.result.ok
    /\ Get(frame.result.err).Message = <<"missing required parameter", "order_id">>

\* C16: classifyBedrockError gives every transport error the kind of the
\* two-tier table: by exception type first; when no type matches, by the
\* message whatever its case ("context length" or "too many tokens" before
\* "content filter" or "guardrail", server otherwise); the result is an
\* *Error with the error's text as Message and the error itself as Cause.
C16_ClassifierTable ==
    (pc = "returned" /\ frame.op = "classifyBedrockError") =>
        LET err == frame.req
            got == Get(frame.result.err)
            t == err.types[Len(err.types)]
            byMessage == IF err.msg \in {MsgTooMany, MsgContextLen, MsgBoth}
                         THEN ErrContextLength
                         ELSE IF err.msg \in {MsgFilter, MsgGuardrail}
                         THEN ErrContentFilter
                         ELSE ErrServer
        IN /\ IsSome(frame.result.err)
           /\ got.llm
           /\ got.Kind =
                 CASE t = "AccessDeniedException" -> ErrAuthentication
                   [] t = "ValidationException" -> ErrInvalidRequest
                   [] t = "ResourceNotFoundException" -> ErrNotFound
                   [] t = "ThrottlingException" -> ErrRateLimit
                   [] t \in {"ModelTimeoutException", "InternalServerException",
                             "ModelErrorException"} -> ErrServer
                   [] OTHER -> byMessage
           /\ got.Message = err.msg
           /\ got.Cause = Some(err)

\* C16 witness: an error of no known type whose message has "Content
\* Filter" in capitals was classified content_filter, cause kept
C16_Witness ==
    /\ pc = "returned"
    /\ frame.op = "classifyBedrockError"
    /\ frame.req = TransportError(<<"OperationError">>, MsgFilter)
    /\ Get(frame.result.err).Kind = ErrContentFilter
    /\ Get(frame.result.err).Cause = Some(frame.req)

\* fromConverseOutput has parsed a reply without error
ParsedReply == pc = "returned" /\ frame.op = "fromConverseOutput" /\ frame.result.ok

C18_StopReasonTable ==
    ParsedReply =>
        LET sr == frame.req.StopReason
            reason == frame.result.reason
        IN /\ sr = "end_turn" => reason = "stop"
           /\ sr = "stop_sequence" => reason = "stop"
           /\ sr = "max_tokens" => reason = "length"
           /\ sr = "model_context_window_exceeded" => reason = "length"
           /\ sr = "tool_use" => reason = "tool_use"
           /\ sr = "content_filtered" => reason = "content_filter"
           /\ sr = "guardrail_intervened" => reason = "content_filter"

\* C18 witness: a reply stopped by a guardrail was parsed
C18_Witness ==
    /\ ParsedReply
    /\ frame.req.StopReason = "guardrail_intervened"
    /\ frame.result.reason = FinishReasonContentFilter

\* C19 as stated: when the output of the reply is not the message variant,
\* Send fails with an error of kind adapter.
C19_UnexpectedReplyIsAdapterError ==
    (/\ SendReturned
     /\ IsSome(frame.outcome)
     /\ Get(frame.outcome).ok
     /\ Get(frame.outcome).out.Output.variant # "message") =>
        /\ IsSome(frame.ret.err)
        /\ Get(frame.ret.err).llm
        /\ Get(frame.ret.err).Kind = ErrAdapter

\* C20 as stated: when the schema of a declared tool is not valid JSON,
\* translating the conversation fails with an error of kind adapter and
\* yields no wire request.
C20_MalformedSchemaFails ==
    (/\ Translated
     /\ \E i \in 1..Len(frame.req.Tools) : frame.req.Tools[i].Parameters.state = "malformed") =>
        /\ ~IsSome(frame.wire)
        /\ IsSome(frame.result.err)
        /\ Get(frame.result.err).Kind = ErrAdapter

\* the ids of the tool-use blocks of a reply, in order
ToolUseIds(blocks) ==
    LET bs == SelectSeq(blocks, LAMBDA b : b.t = "toolUse")
    IN [i \in 1..Len(bs) |-> bs[i].ToolUseId]

\* the caller answers the tool calls of the last message with Result /
\* ErrorResult and the Send that carries the answers has called Converse
AnsweringToolCalls ==
    /\ InSend
    /\ pc = "inflight"
    /\ Len(frame.newMsgs) > 0
    /\ frame.newMsgs[1].Role = RoleTool

\* C21: the tool-call correlation id is round-tripped verbatim: the parsed
\* tool calls of a reply carry the ids of the reply's tool-use blocks, in
\* order; the tool-result message built from a call by Result or
\* ErrorResult carries the call's ID on the message and on its part; and
\* the wire tool-result block toConverseInput builds from that message has
\* that id as its tool-use id (as has the wire tool-use block built from the
\* call itself).
C21_CorrelationIdRoundTrip ==
    /\ (SendSucceeded /\ IsSome(frame.outcome)) =>
          LET calls == ToolCalls(DeepMsg(heap, Get(frame.ret.resp).Message))
          IN [i \in 1..Len(calls) |-> calls[i].ID]
                = ToolUseIds(Get(frame.outcome).out.Output.Content)
    /\ AnsweringToolCalls =>
          LET n == Len(frame.orig.Messages)
              calls == ToolCalls(frame.orig.Messages[n])
              wire == Get(frame.wire).Messages
          IN /\ Len(frame.newMsgs) = Len(calls)
             /\ \A i \in 1..Len(calls) :
                   /\ frame.newMsgs[i].ToolCallID = calls[i].ID
                   /\ Get(frame.newMsgs[i].Content[1].ToolResult).ToolCallID = calls[i].ID
                   /\ Len(wire[n + i].Content) = 1
                   /\ wire[n + i].Content[1].t = "toolResult"
                   /\ wire[n + i].Content[1].ToolUseId = calls[i].ID
             /\ ~frame.touched =>
                   ToolUseIds(wire[n].Content) = [i \in 1..Len(calls) |-> calls[i].ID]

\* C21 witness: the two tool calls c1 and c2 of a reply were answered, the
\* first with Result and the second with ErrorResult, and the wire request
\* carries a success block for c1 and an error block for c2
C21_Witness ==
    /\ AnsweringToolCalls
    /\ Len(frame.newMsgs) = 2
    /\ LET n == Len(frame.orig.Messages)
           wire == Get(frame.wire).Messages
       IN /\ wire[n + 1].Content[1].ToolUseId = "c1"
          /\ wire[n + 1].Content[1].Status = "success"
          /\ wire[n + 2].Content[1].ToolUseId = "c2"
          /\ wire[n + 2].Content[1].Status = "error"
          /\ ToolUseIds(wire[n].Content) = <<"c1", "c2">>

(* --------------------------- concurrent Sends --------------------------- *)

\* two conversations that share no array: the restored one and a second
\* one with a message, a system prompt, a tool and some usage of its own
ConcHeap ==
    [msgs |-> RestoredHeap.msgs
                 \o <<<<[Role |-> RoleUser, Content |-> [a |-> 2, n |-> 1], ToolCallID |-> ""]>>>>,
     parts |-> RestoredHeap.parts \o <<<<TextPart("hello")>>>>,
     tools |-> RestoredHeap.tools \o <<<<DeclaredTool(3)>>>>,
     sys |-> RestoredHeap.sys \o <<<<"be kind">>>>]
SecondConversation(model) ==
    [Model |-> model, System |-> [a |-> 2, n |-> 1], Messages |-> [a |-> 2, n |-> 1],
     Tools |-> [a |-> 2, n |-> 1],
     Config |-> Config(None, None, None, <<>>, None),
     Usage |-> Usage(2, 1, 0, 0, 0)]

\* two goroutines, each about to call Send on the one Client with a
\* conversation of its own
InitConc ==
    /\ \E n \in 0..1 :
          client = [api |-> "send", middleware |-> [i \in 1..n |-> i], adapters |-> {},
                    defaultProvider |-> ""]
    /\ heap = ConcHeap
    /\ cur = RestoredConversation(ModelHaiku)
    /\ sends = 0
    /\ usage0 = cur.Usage
    /\ turnSum = ZeroUsage
    /\ pc = "idle"
    /\ frame = EmptyFrame
    /\ other = Goroutine(2, SecondConversation(ModelLlama), "idle", EmptyFrame,
                         GoroutineView(ConcHeap, SecondConversation(ModelLlama), EmptyFrame))

\* the scheduler takes the running goroutine off and resumes the other one,
\* between any two steps; the heap and the Client are shared
Preempt ==
    /\ other.id # 0
    /\ other' = Goroutine(3 - other.id, cur, pc, frame, GoroutineView(heap, cur, frame))
    /\ cur' = other.cur
    /\ pc' = other.pc
    /\ frame' = other.frame
    /\ UNCHANGED <<client, heap, sends, usage0, turnSum>>

NextConc ==
    \/ CallSend
    \/ MwEnter
    \/ SendCore
    \/ ConverseReply
    \/ MwExit
    \/ SendReturn
    \/ Preempt

SpecConc == InitConc /\ [][NextConc]_vars

\* what Send(orig, newMsgs...) returns when it runs alone, slices by value:
\* outcome is what Converse returned, or nothing when a middleware returned
\* its own error without calling next
SendAlone(orig, newMsgs, outcome) ==
    LET snapshot == [orig EXCEPT !.Messages = orig.Messages \o newMsgs]
        failed(e) == [conv |-> snapshot, resp |-> None, err |-> Some(e)]
    IN IF ~IsSome(outcome) THEN failed(PlainError(MsgBlocked))
       ELSE IF ~Get(outcome).ok THEN failed(classifyBedrockError(Get(outcome).err))
       ELSE LET r == fromConverseOutput(Get(outcome).out)
            IN IF ~r.ok THEN failed(Get(r.err))
               ELSE [conv |-> [snapshot EXCEPT !.Messages = Append(@, r.msg),
                                               !.Usage = Add(orig.Usage, r.usage)],
                     resp |-> Some([Message |-> r.msg, FinishReason |-> r.reason,
                                    Usage |-> r.usage]),
                     err |-> None]

\* a Send at position p with locals f that has returned (through
\* middlewares that wrote nothing) has returned what it returns alone
ReturnedAsAlone(h, p, f) ==
    (p = "returned" /\ f.op = "Send" /\ ~f.touched) =>
        LET alone == SendAlone(f.orig, f.newMsgs, f.outcome)
        IN /\ DeepConv(h, f.ret.conv) = alone.conv
           /\ f.ret.err = alone.err
           /\ IsSome(f.ret.resp) = IsSome(alone.resp)
           /\ IsSome(f.ret.resp) =>
                 /\ DeepMsg(h, Get(f.ret.resp).Message) = Get(alone.resp).Message
                 /\ Get(f.ret.resp).FinishReason = Get(alone.resp).FinishReason
                 /\ Get(f.ret.resp).Usage = Get(alone.resp).Usage

\* C22: two Sends on one Client with different conversations, their steps
\* interleaved in any order: no step of one changes anything the other sees
\* of its conversations (the caller's, the snapshot, the returned one, the
\* reply), and each returns the conversation, response and error it returns
\* when it runs alone.
C22_ConcurrentSendsIndependent ==
    other.id # 0 =>
        /\ GoroutineView(heap, other.cur, other.frame) = other.view
        /\ ReturnedAsAlone(heap, pc, frame)
        /\ ReturnedAsAlone(heap, other.pc, other.frame)

\* C22 witness: both Sends have returned a reply, and their steps were
\* interleaved: the first goroutine built its snapshot before the second
\* one built its own, and received its reply after the second one had
\* received its own (the arrays are allocated in that order)
C22_Witness ==
    /\ other.id = 1
    /\ pc = "returned"
    /\ other.pc = "returned"
    /\ frame.op = "Send"
    /\ other.frame.op = "Send"
    /\ ~frame.touched
    /\ ~other.frame.touched
    /\ Len(frame.newMsgs) > 0
    /\ Len(other.frame.newMsgs) > 0
    /\ IsSome(frame.ret.resp)
    /\ IsSome(other.frame.ret.resp)
    /\ other.frame.conv.Messages.a < frame.conv.Messages.a
    /\ Get(other.frame.ret.resp).Message.Content.a > Get(frame.ret.resp).Message.Content.a

\* a Complete call is in progress or has just returned
InComplete == frame.op = "Complete"

\* C23: Complete resolves the provider as req.Provider, or as the client's
\* default provider when req.Provider is empty.  When neither is set, or no
\* adapter is registered for the resolved provider, it returns an *Error of
\* kind config and no response, no middleware has run and the transport was
\* not called; otherwise the chain is entered.
C23_ProviderResolution ==
    InComplete =>
        LET provider == IF frame.req.Provider # "" THEN frame.req.Provider
                        ELSE client.defaultProvider
            unresolved == provider = "" \/ provider \notin client.adapters
        IN /\ frame.provider = provider
           /\ unresolved =>
                 /\ pc = "returned"
                 /\ IsSome(frame.ret.err)
                 /\ Get(frame.ret.err).llm
                 /\ Get(frame.ret.err).Kind = ErrConfig
                 /\ ~IsSome(frame.ret.resp)
                 /\ frame.order = <<>>
                 /\ frame.calls = 0
                 /\ frame.wire = None
           /\ ~unresolved => frame.fn # <<>>

\* C23 witness: on a client with two middlewares and a default provider, a
\* request for a provider without adapter returned the config error
C23_Witness ==
    /\ InComplete
    /\ pc = "returned"
    /\ Len(client.middleware) = 2
    /\ client.defaultProvider # ""
    /\ frame.req.Provider = "gemini"
    /\ Get(frame.ret.err).Kind = ErrConfig
    /\ frame.order = <<>>

\* OpenAIAdapter.BuildInvokeInput has returned for a request whose
\* tool-choice policy is none
OpenAINone ==
    /\ pc = "returned"
    /\ frame.op = "OpenAIBuildInvokeInput"
    /\ IsSome(frame.req.ToolChoice)
    /\ Get(frame.req.ToolChoice).Mode = ToolChoiceNone

\* C24 as stated: with tool-choice policy none the request of
\* OpenAIAdapter.BuildInvokeInput carries neither tool declarations nor a
\* tool_choice field, even if tools are declared.
C24_OpenAINoneDropsTools ==
    OpenAINone =>
        /\ Get(frame.wire).Body.Tools = <<>>
        /\ ~IsSome(Get(frame.wire).Body.ToolChoice)

\* C24 amended: with tool-choice policy none the request of
\* OpenAIAdapter.BuildInvokeInput carries every declared tool, in order, and
\* the tool_choice field "none"; only when no tool is declared does it carry
\* no tool declarations.
C24_OpenAINoneKeepsTools ==
    OpenAINone =>
        LET body == Get(frame.wire).Body
        IN /\ Len(body.Tools) = Len(frame.req.Tools)
           /\ \A i \in 1..Len(body.Tools) :
                 /\ body.Tools[i].Type = "function"
                 /\ body.Tools[i].Function.Name = frame.req.Tools[i].Name
                 /\ body.Tools[i].Function.Parameters = frame.req.Tools[i].Parameters
           /\ body.ToolChoice = Some([type |-> "none", name |-> ""])

\* C24 witness: a request with one declared tool and policy none was built
\* with that tool and tool_choice "none"
C24_Witness ==
    /\ OpenAINone
    /\ Get(frame.wire).ok
    /\ Len(frame.req.Tools) = 1
    /\ Len(Get(frame.wire).Body.Tools) = 1
    /\ Get(frame.wire).Body.Tools[1].Function.Name = "get_user"
    /\ Get(Get(frame.wire).Body.ToolChoice).type = "none"

\* C25: in the request toConverseInput builds, a thinking part of a message
\* becomes a reasoning block with the same text and signature, at its
\* position among the blocks of the other parts, only for the Anthropic
\* model; for the other model every thinking part is dropped, no error is
\* returned, and the blocks of the other parts are the same, in the same
\* order, as for the Anthropic model.
C25_ThinkingOnlyForAnthropic ==
    Translated =>
        LET conv == frame.req
            capable == conv.Model = ModelHaiku
            kept(p) == p.Kind # ContentThinking \/ (capable /\ IsSome(p.Thinking))
        IN /\ IsSome(frame.wire)
           /\ ~IsSome(frame.result.err)
           /\ Len(Get(frame.wire).Messages) = Len(conv.Messages)
           /\ \A i \in 1..Len(conv.Messages) :
                 LET parts == SelectSeq(conv.Messages[i].Content, kept)
                     wire == Get(frame.wire).Messages[i].Content
                 IN /\ Len(wire) = Len(parts)
                    /\ \A j \in 1..Len(parts) :
                          IF parts[j].Kind = ContentThinking
                          THEN wire[j] = [t |-> "reasoning",
                                          Text |-> Get(parts[j].Thinking).Text,
                                          Signature |-> Get(parts[j].Thinking).Signature]
                          ELSE <<wire[j]>> = converseBlocks(parts[j], TRUE)
                    /\ ~capable => \A j \in 1..Len(wire) : wire[j].t # "reasoning"

\* C25 witness: for the other model, the assistant message with a thinking
\* part between a text and a tool call was translated to the text, the tool
\* use and the last text, without the thinking part
C25_Witness ==
    /\ Translated
    /\ frame.req.Model = ModelLlama
    /\ Len(frame.req.Messages) = 3
    /\ frame.req.Messages[2] = MessagePool_ThinkingTurn
    /\ Len(Get(frame.wire).Messages[2].Content) = 3
    /\ Get(frame.wire).Messages[2].Content[1] = [t |-> "text", Value |-> "let me see"]
    /\ Get(frame.wire).Messages[2].Content[2].t = "toolUse"
    /\ Get(frame.wire).Messages[2].Content[3] = [t |-> "text", Value |-> "one moment"]

\* C26 as stated: a ToolDefinition that was serialized to JSON and
\* reconstructed makes in ParseArgs the same accept/reject decision on every
\* tool call as the original definition, and still rejects a call that
\* lacks a required parameter.
C26_ValidationSurvivesPersistence ==
    (pc = "returned" /\ frame.op = "RestoredParseArgs") =>
        LET original == ParseArgs(frame.req.stored, frame.req.call)
            args == IF frame.req.call.Arguments.state = "valid"
                    THEN frame.req.call.Arguments.doc.v ELSE <<>>
        IN /\ frame.result.ok = original.ok
           /\ (\E i \in 1..Len(frame.req.stored.params) :
                  /\ frame.req.stored.params[i].Required
                  /\ frame.req.stored.params[i].Name \notin DOMAIN args)
                 => ~frame.result.ok

\* C27 as stated: whatever a middleware writes in place to the snapshot it
\* receives (an element of its Tools or System list, a content part of one
\* of its messages), after Send has returned the caller's conversation has
\* the tools, system blocks and message contents it had before the call.
C27_MiddlewareWritesStayInSnapshot ==
    SendReturned =>
        /\ DeepConv(heap, cur).Tools = frame.orig.Tools
        /\ DeepConv(heap, cur).System = frame.orig.System
        /\ DeepConv(heap, cur).Messages = frame.orig.Messages

(* ------------------------------- forking -------------------------------- *)

\* the texts of the second fork
ForkTexts == <<"or", "else", "instead", "rather", "otherwise">>

\* the new messages of a fork: the first fork's as in NewLists, the second
\* fork's with texts of its own; at least one each
ForkLists ==
    IF other.id = 2
    THEN {vals \in NewLists(DeepConv(heap, cur)) : Len(vals) > 0}
    ELSE {[i \in 1..k |-> UserMessage(ForkTexts[i])] : k \in 1..MaxNew}

\* the caller holds the restored conversation c, whose message array has a
\* spare slot, and is about to Send from it twice; no middleware
InitFork ==
    /\ client = [api |-> "send", middleware |-> <<>>, adapters |-> {}, defaultProvider |-> ""]
    /\ heap = RestoredHeap
    /\ cur = RestoredConversation(ModelHaiku)
    /\ sends = 0
    /\ usage0 = cur.Usage
    /\ turnSum = ZeroUsage
    /\ pc = "idle"
    /\ frame = EmptyFrame
    /\ other = Goroutine(2, RestoredConversation(ModelHaiku), "idle", EmptyFrame,
                         GoroutineView(RestoredHeap, RestoredConversation(ModelHaiku),
                                       EmptyFrame))

\* c1, _, err := client.Send(ctx, c, ...) and then c2, _, err :=
\* client.Send(ctx, c, ...)
ForkSend == SendWith(ForkLists)

\* the first Send has returned: the caller keeps what it returned and goes
\* back to c for the second Send
ForkAgain ==
    /\ pc = "returned"
    /\ other.pc = "idle"
    /\ Preempt

NextFork ==
    \/ ForkSend
    \/ SendCore
    \/ ConverseReply
    \/ SendReturn
    \/ ForkAgain

SpecFork == InitFork /\ [][NextFork]_vars

\* both Sends from c have returned
BothForksReturned ==
    /\ other.id = 1
    /\ other.pc = "returned"
    /\ pc = "returned"

\* C28: two Sends issued one after the other from the same conversation c,
\* with different new messages, giving c1 and c2: nothing of c1 (nor of c)
\* is changed by the second Send, and the messages of each are c's messages,
\* then its own new messages, then its own reply when it succeeded; c2 has
\* no message of the first Send.
C28_ForkingIsSafe ==
    other.id = 1 =>
        /\ GoroutineView(heap, other.cur, other.frame) = other.view
        /\ DeepConv(heap, cur) = other.view.cur
        /\ BothForksReturned =>
              LET c == other.view.cur.Messages
                  c1 == DeepConv(heap, other.frame.ret.conv).Messages
                  c2 == DeepConv(heap, frame.ret.conv).Messages
                  own(f) == IF IsSome(f.ret.resp)
                            THEN f.newMsgs \o <<DeepMsg(heap, Get(f.ret.resp).Message)>>
                            ELSE f.newMsgs
              IN /\ c1 = c \o own(other.frame)
                 /\ c2 = c \o own(frame)
                 /\ \A i \in (Len(c) + 1)..Len(c2) :
                       \A j \in 1..Len(other.frame.newMsgs) : c2[i] # other.frame.newMsgs[j]

\* C28 witness: both Sends succeeded; c has one message, c1 has it followed
\* by one new message and a text reply, c2 has it followed by two other
\* messages and a tool-call reply
C28_Witness ==
    /\ BothForksReturned
    /\ IsSome(other.frame.ret.resp)
    /\ IsSome(frame.ret.resp)
    /\ Cap(heap.msgs, cur.Messages) > cur.Messages.n
    /\ Roles(DeepConv(heap, other.frame.ret.conv).Messages)
          = <<RoleUser, RoleUser, RoleAssistant>>
    /\ Roles(DeepConv(heap, frame.ret.conv).Messages)
          = <<RoleUser, RoleUser, RoleUser, RoleAssistant>>
    /\ DeepConv(heap, other.frame.ret.conv).Messages[2] = UserMessage("hi")
    /\ DeepConv(heap, frame.ret.conv).Messages[2] = UserMessage("or")
    /\ Len(ToolCalls(DeepConv(heap, other.frame.ret.conv).Messages[3])) = 0
    /\ Len(ToolCalls(DeepConv(heap, frame.ret.conv).Messages[4])) > 0

(* ----------------------------- wire roles ------------------------------- *)

\* toConverseInput has returned its request
ConverseInputBuilt ==
    /\ pc = "returned"
    /\ frame.op = "toConverseInput"
    /\ IsSome(frame.wire)

\* C29: every message of the request toConverseInput builds has the role
\* user or assistant, whichever of the four roles (system, user, assistant,
\* tool) the conversation's message carries.
C29_WireRolesUserOrAssistant ==
    ConverseInputBuilt =>
        \A i \in 1..Len(Get(frame.wire).Messages) :
            Get(frame.wire).Messages[i].Role \in {"user", "assistant"}

(* ----------------------- tool choice without tools ---------------------- *)

\* AnthropicAdapter.BuildInvokeInput has returned its request
AnthropicInputBuilt ==
    /\ pc = "returned"
    /\ frame.op = "BuildInvokeInput"
    /\ IsSome(frame.wire)
    /\ Get(frame.wire).ok

\* C30: a wire request carries a tool choice only when it carries at least
\* one tool declaration, in toConverseInput and in
\* AnthropicAdapter.BuildInvokeInput alike.
C30_ToolChoiceOnlyWithTools ==
    /\ ConverseInputBuilt =>
          ((IsSome(Get(frame.wire).ToolConfig)
               /\ IsSome(Get(Get(frame.wire).ToolConfig).ToolChoice))
              => \E i \in 1..Len(Get(Get(frame.wire).ToolConfig).Tools) :
                    Get(Get(frame.wire).ToolConfig).Tools[i].t = "toolSpec")
    /\ AnthropicInputBuilt =>
          (IsSome(Get(frame.wire).Body.ToolChoice)
              => Len(Get(frame.wire).Body.Tools) > 0)

====
